---------------------------- MODULE Spec2Model ----------------------------
(***************************************************************************)
(* Data import and field-mapping pipeline of the tax application:          *)
(* the field-mapping session of DataMappingInterface, the data-mapping     *)
(* endpoints, validateFormData / convertToIncomeEntries, the format        *)
(* parsers and the OCR extraction routes.                                  *)
(*                                                                         *)
(* Representation.  A JavaScript string is a sequence of one-character     *)
(* strings wherever the code looks inside it (regular expressions,         *)
(* parseFloat, trim, toLowerCase); identifiers that the code only compares *)
(* for equality (object keys, field names) are TLA+ strings, and Chars     *)
(* gives their characters.  A JavaScript object is a sequence of           *)
(* [k, v] entries with distinct keys, in insertion order.                  *)
(***************************************************************************)
EXTENDS Integers, Sequences, FiniteSets, TLC

VARIABLES
  \* DataMappingInterface (React state) and the dataMapping table
  selectedFormType, formTemplate, sourceFields, fieldMappings, savedMappings,
  nOps,
  \* set/unset round trip on one source column
  rtPrior, rtSource, rtStep,
  \* the mapping process endpoint and its tables
  upload, dataMapping, plStage, validationResult, convertedEntries,
  processedFormTable, incomeEntryTable, response,
  \* the tax returns with their owners, the requests to the process endpoint
  \* still to come, and the last request it served
  taxReturnTable, plPending, plRequest,
  \* parseUploadedFile: the file and the result
  parseFile, parseResult,
  \* the stored document, the answer of the analysis backend, and what the
  \* two document routes write: the dataUpload row and the event stream,
  \* the document row, the extraction result and the response
  ocrDocument, backendResult, uploadRow, sseEvents, documentRow,
  ocrExtracted, ocrResponse,
  \* what the stream callback of the upload processing route did, in order:
  \* events enqueued, row updates attempted, the stream closed; and whether
  \* the database takes the update to COMPLETED and the update to FAILED
  sseLog, rowUpdates,
  \* one request to an upload endpoint: the request, the route that took it,
  \* whether the file was parsed, the uploads directory, the dataUpload table
  \* and the response
  upRequest, upRoute, upParsed, upDir, upTable, upResponse,
  \* pollForResults: the loop counter, where the call stands, the answer to
  \* the last fetch, how the call ended, the number of fetch calls issued and
  \* the milliseconds spent in setTimeout
  pollAttempt, pollPhase, pollStatus, pollResult, pollFetches, pollWaited

uiVars == << selectedFormType, formTemplate, sourceFields, fieldMappings,
             savedMappings, nOps >>
rtVars == << rtPrior, rtSource, rtStep >>
plVars == << upload, dataMapping, plStage, validationResult, convertedEntries,
             processedFormTable, incomeEntryTable, response,
             taxReturnTable, plPending, plRequest >>

parseVars == << parseFile, parseResult >>

ocrVars == << ocrDocument, backendResult, uploadRow, sseEvents, documentRow,
              ocrExtracted, ocrResponse, sseLog, rowUpdates >>

upVars == << upRequest, upRoute, upParsed, upDir, upTable, upResponse >>

pollVars == << pollAttempt, pollPhase, pollStatus, pollResult, pollFetches,
              pollWaited >>

vars == << uiVars, rtVars, plVars, parseVars, ocrVars, upVars, pollVars >>

-----------------------------------------------------------------------------
(* Bounds *)

\* number of user operations in one mapping session
MaxOps == 4
\* number of data rows of an upload file
MaxRows == 3
\* number of data rows of a file handed to the parsers
MaxParseRows == 6
\* number of validated rows handed to the conversion
MaxConvertRows == 2
\* requests to the process endpoint in one behaviour
MaxRequests == 2

-----------------------------------------------------------------------------
(* Characters and strings *)

UpperCase == <<"A","B","C","D","E","F","G","H","I","J","K","L","M",
               "N","O","P","Q","R","S","T","U","V","W","X","Y","Z">>
LowerCase == <<"a","b","c","d","e","f","g","h","i","j","k","l","m",
               "n","o","p","q","r","s","t","u","v","w","x","y","z">>
Digits == {"0","1","2","3","4","5","6","7","8","9"}
Range(f) == { f[i] : i \in DOMAIN f }
Letters == Range(UpperCase) \cup Range(LowerCase)

\* String.prototype.toLowerCase, one character
LowerChar(c) ==
  IF c \in Range(UpperCase)
    THEN LowerCase[CHOOSE i \in 1..26 : UpperCase[i] = c]
    ELSE c

toLowerCase(s) == [i \in 1..Len(s) |-> LowerChar(s[i])]

\* String.prototype.includes
Includes(s, t) ==
  \E i \in 0..(Len(s) - Len(t)) : SubSeq(s, i + 1, i + Len(t)) = t

Chars(s) ==
  CASE s = "employerEIN" -> <<"e","m","p","l","o","y","e","r","E","I","N">>
    [] s = "employerName" -> <<"e","m","p","l","o","y","e","r","N","a","m","e">>
    [] s = "employerAddress" -> <<"e","m","p","l","o","y","e","r","A","d","d","r","e","s","s">>
    [] s = "employeeSSN" -> <<"e","m","p","l","o","y","e","e","S","S","N">>
    [] s = "employeeName" -> <<"e","m","p","l","o","y","e","e","N","a","m","e">>
    [] s = "employeeAddress" -> <<"e","m","p","l","o","y","e","e","A","d","d","r","e","s","s">>
    [] s = "wages" -> <<"w","a","g","e","s">>
    [] s = "federalIncomeTaxWithheld" -> <<"f","e","d","e","r","a","l","I","n","c","o","m","e","T","a","x","W","i","t","h","h","e","l","d">>
    [] s = "socialSecurityWages" -> <<"s","o","c","i","a","l","S","e","c","u","r","i","t","y","W","a","g","e","s">>
    [] s = "socialSecurityTaxWithheld" -> <<"s","o","c","i","a","l","S","e","c","u","r","i","t","y","T","a","x","W","i","t","h","h","e","l","d">>
    [] s = "medicareWages" -> <<"m","e","d","i","c","a","r","e","W","a","g","e","s">>
    [] s = "medicareTaxWithheld" -> <<"m","e","d","i","c","a","r","e","T","a","x","W","i","t","h","h","e","l","d">>
    [] s = "socialSecurityTips" -> <<"s","o","c","i","a","l","S","e","c","u","r","i","t","y","T","i","p","s">>
    [] s = "allocatedTips" -> <<"a","l","l","o","c","a","t","e","d","T","i","p","s">>
    [] s = "dependentCareBenefits" -> <<"d","e","p","e","n","d","e","n","t","C","a","r","e","B","e","n","e","f","i","t","s">>
    [] s = "nonqualifiedPlans" -> <<"n","o","n","q","u","a","l","i","f","i","e","d","P","l","a","n","s">>
    [] s = "statutoryEmployee" -> <<"s","t","a","t","u","t","o","r","y","E","m","p","l","o","y","e","e">>
    [] s = "retirementPlan" -> <<"r","e","t","i","r","e","m","e","n","t","P","l","a","n">>
    [] s = "thirdPartySickPay" -> <<"t","h","i","r","d","P","a","r","t","y","S","i","c","k","P","a","y">>
    [] s = "stateWages" -> <<"s","t","a","t","e","W","a","g","e","s">>
    [] s = "stateIncomeTax" -> <<"s","t","a","t","e","I","n","c","o","m","e","T","a","x">>
    [] s = "localWages" -> <<"l","o","c","a","l","W","a","g","e","s">>
    [] s = "localIncomeTax" -> <<"l","o","c","a","l","I","n","c","o","m","e","T","a","x">>
    [] s = "EmpName" -> <<"E","m","p","N","a","m","e">>
    [] s = "EmpWages" -> <<"E","m","p","W","a","g","e","s">>
    [] s = "FedWH" -> <<"F","e","d","W","H">>
    [] s = "wages" -> <<"w","a","g","e","s">>
    [] s = "Total Wages" -> <<"T","o","t","a","l"," ","W","a","g","e","s">>
    [] s = "federalTaxWithheld" -> <<"f","e","d","e","r","a","l","T","a","x","W","i","t","h","h","e","l","d">>
    [] s = "A" -> <<"A">>
    [] s = "B" -> <<"B">>
    [] s = "name" -> <<"n","a","m","e">>
    [] s = "amount" -> <<"a","m","o","u","n","t">>

-----------------------------------------------------------------------------
(* JavaScript objects: entries [k, v] in insertion order, keys distinct *)

ObjKeys(o) == [i \in 1..Len(o) |-> o[i].k]
ObjHas(o, key) == \E i \in 1..Len(o) : o[i].k = key
ObjIndex(o, key) == CHOOSE i \in 1..Len(o) : o[i].k = key
\* o[key] for a key that is present
ObjGet(o, key) == o[ObjIndex(o, key)].v
\* o[key] = val : an existing key keeps its place, a new key goes last
ObjSet(o, key, val) ==
  IF ObjHas(o, key)
    THEN [o EXCEPT ![ObjIndex(o, key)] = [k |-> key, v |-> val]]
    ELSE Append(o, [k |-> key, v |-> val])
\* delete o[key]
ObjDelete(o, key) == SelectSeq(o, LAMBDA e : e.k # key)

-----------------------------------------------------------------------------
(* Schema catalogue *)

W2_TEMPLATE ==
  << [name |-> "employerEIN", type |-> "text", required |-> TRUE,
      label |-> <<"E","m","p","l","o","y","e","r","'","s"," ","E","I","N">>],
     [name |-> "employerName", type |-> "text", required |-> TRUE,
      label |-> <<"E","m","p","l","o","y","e","r","'","s"," ","N","a","m","e">>],
     [name |-> "employerAddress", type |-> "text", required |-> TRUE,
      label |-> <<"E","m","p","l","o","y","e","r","'","s"," ","A","d","d","r","e","s","s">>],
     [name |-> "employeeSSN", type |-> "text", required |-> TRUE,
      label |-> <<"E","m","p","l","o","y","e","e","'","s"," ","S","S","N">>],
     [name |-> "employeeName", type |-> "text", required |-> TRUE,
      label |-> <<"E","m","p","l","o","y","e","e","'","s"," ","N","a","m","e">>],
     [name |-> "employeeAddress", type |-> "text", required |-> TRUE,
      label |-> <<"E","m","p","l","o","y","e","e","'","s"," ","A","d","d","r","e","s","s">>],
     [name |-> "wages", type |-> "decimal", required |-> TRUE,
      label |-> <<"W","a","g","e","s",","," ","t","i","p","s",","," ","o","t","h","e","r"," ","c","o","m","p","e","n","s","a","t","i","o","n">>],
     [name |-> "federalIncomeTaxWithheld", type |-> "decimal", required |-> FALSE,
      label |-> <<"F","e","d","e","r","a","l"," ","i","n","c","o","m","e"," ","t","a","x"," ","w","i","t","h","h","e","l","d">>],
     [name |-> "socialSecurityWages", type |-> "decimal", required |-> FALSE,
      label |-> <<"S","o","c","i","a","l"," ","s","e","c","u","r","i","t","y"," ","w","a","g","e","s">>],
     [name |-> "socialSecurityTaxWithheld", type |-> "decimal", required |-> FALSE,
      label |-> <<"S","o","c","i","a","l"," ","s","e","c","u","r","i","t","y"," ","t","a","x"," ","w","i","t","h","h","e","l","d">>],
     [name |-> "medicareWages", type |-> "decimal", required |-> FALSE,
      label |-> <<"M","e","d","i","c","a","r","e"," ","w","a","g","e","s"," ","a","n","d"," ","t","i","p","s">>],
     [name |-> "medicareTaxWithheld", type |-> "decimal", required |-> FALSE,
      label |-> <<"M","e","d","i","c","a","r","e"," ","t","a","x"," ","w","i","t","h","h","e","l","d">>],
     [name |-> "socialSecurityTips", type |-> "decimal", required |-> FALSE,
      label |-> <<"S","o","c","i","a","l"," ","s","e","c","u","r","i","t","y"," ","t","i","p","s">>],
     [name |-> "allocatedTips", type |-> "decimal", required |-> FALSE,
      label |-> <<"A","l","l","o","c","a","t","e","d"," ","t","i","p","s">>],
     [name |-> "dependentCareBenefits", type |-> "decimal", required |-> FALSE,
      label |-> <<"D","e","p","e","n","d","e","n","t"," ","c","a","r","e"," ","b","e","n","e","f","i","t","s">>],
     [name |-> "nonqualifiedPlans", type |-> "decimal", required |-> FALSE,
      label |-> <<"N","o","n","q","u","a","l","i","f","i","e","d"," ","p","l","a","n","s">>],
     [name |-> "statutoryEmployee", type |-> "boolean", required |-> FALSE,
      label |-> <<"S","t","a","t","u","t","o","r","y"," ","e","m","p","l","o","y","e","e">>],
     [name |-> "retirementPlan", type |-> "boolean", required |-> FALSE,
      label |-> <<"R","e","t","i","r","e","m","e","n","t"," ","p","l","a","n">>],
     [name |-> "thirdPartySickPay", type |-> "boolean", required |-> FALSE,
      label |-> <<"T","h","i","r","d","-","p","a","r","t","y"," ","s","i","c","k"," ","p","a","y">>],
     [name |-> "stateWages", type |-> "decimal", required |-> FALSE,
      label |-> <<"S","t","a","t","e"," ","w","a","g","e","s",","," ","t","i","p","s",","," ","e","t","c",".">>],
     [name |-> "stateIncomeTax", type |-> "decimal", required |-> FALSE,
      label |-> <<"S","t","a","t","e"," ","i","n","c","o","m","e"," ","t","a","x">>],
     [name |-> "localWages", type |-> "decimal", required |-> FALSE,
      label |-> <<"L","o","c","a","l"," ","w","a","g","e","s",","," ","t","i","p","s",","," ","e","t","c",".">>],
     [name |-> "localIncomeTax", type |-> "decimal", required |-> FALSE,
      label |-> <<"L","o","c","a","l"," ","i","n","c","o","m","e"," ","t","a","x">>] >>

FORM_TEMPLATES(formType) ==
  IF formType = "W2" THEN W2_TEMPLATE ELSE << >>

-----------------------------------------------------------------------------
(* DataMappingInterface: the field mapping of one session *)

updateFieldMapping(prev, targetField, sourceField) ==
  ObjSet(prev, sourceField, targetField)

RemoveKeepsEntry(prev, sourceField) == prev

removeFieldMapping(prev, sourceField) ==
  ObjDelete(prev, sourceField)

\* .toLowerCase().replace(/[^a-z0-9]/g, '')
Normalize(s) ==
  SelectSeq(toLowerCase(s), LAMBDA c : c \in Range(LowerCase) \cup Digits)

\* the predicate of formFields.find in autoSuggestMappings
SuggestMatches(sourceField, formField) ==
  LET sourceLower == Normalize(Chars(sourceField))
      targetLower == Normalize(Chars(formField.name))
      labelLower  == Normalize(formField.label)
  IN  \/ Includes(sourceLower, targetLower)
      \/ Includes(targetLower, sourceLower)
      \/ Includes(sourceLower, labelLower)
      \/ Includes(labelLower, sourceLower)

RECURSIVE SuggestFrom(_, _, _, _)
SuggestFrom(fields, formFields, i, suggestions) ==
  IF i > Len(fields) THEN suggestions
  ELSE
    LET hits == { j \in 1..Len(formFields) : SuggestMatches(fields[i], formFields[j]) }
    IN  IF hits = {} THEN SuggestFrom(fields, formFields, i + 1, suggestions)
        ELSE LET bestMatch == formFields[CHOOSE j \in hits : \A h \in hits : j <= h]
             IN  SuggestFrom(fields, formFields, i + 1,
                             ObjSet(suggestions, fields[i], bestMatch.name))

\* every column that is like some field gets the last such field
SuggestLastMatch(fields, formFields) ==
  LET Hits(c) == { j \in 1..Len(formFields) : SuggestMatches(c, formFields[j]) }
      matched == SelectSeq(fields, LAMBDA c : Hits(c) # {})
  IN  [i \in 1..Len(matched) |->
         [k |-> matched[i],
          v |-> formFields[CHOOSE j \in Hits(matched[i]) :
                             \A h \in Hits(matched[i]) : h <= j].name]]

\* the mapping autoSuggestMappings hands to setFieldMappings
autoSuggestMappings(fields, formFields) ==
  SuggestFrom(fields, formFields, 1, << >>)

\* the target fields the user picks in the "Map to..." select
TargetChoices == {"employeeName", "wages", "federalIncomeTaxWithheld"}

\* formTemplate is null, or the fetched template named by its form type
NoTemplate == ""
FormFields(template) == FORM_TEMPLATES(template)

InitUI ==
  LET
    \* column lists of the uploads a session is opened on (keys of previewData[0])
    SourceFieldLists ==
      { <<"EmpName", "EmpWages", "FedWH">>,
        <<"wages", "Total Wages">>,
        <<"A", "B">> }
  IN
  /\ selectedFormType = ""
  /\ formTemplate = NoTemplate
  /\ sourceFields \in SourceFieldLists
  /\ fieldMappings = << >>
  /\ savedMappings = << >>
  /\ nOps = 0

\* onValueChange of the form-type select; the template fetch may fail
HandleFormTypeChange ==
  /\ nOps < MaxOps
  /\ \E formType \in {"W2"}, ok \in BOOLEAN :
       /\ selectedFormType' = formType
       /\ fieldMappings' = << >>
       /\ formTemplate' = IF ok THEN formType ELSE formTemplate
  /\ nOps' = nOps + 1
  /\ UNCHANGED << sourceFields, savedMappings >>

\* "Map to..." select of an available column: the list shows the columns
\* without a mapping, its options the fields no column maps to
UpdateFieldMapping ==
  /\ nOps < MaxOps
  /\ formTemplate # NoTemplate
  /\ \E i \in 1..Len(sourceFields), targetField \in TargetChoices :
       /\ ~ObjHas(fieldMappings, sourceFields[i])
       /\ \E f \in Range(FormFields(formTemplate)) : f.name = targetField
       /\ \A e \in Range(fieldMappings) : e.v # targetField
       /\ fieldMappings' = updateFieldMapping(fieldMappings, targetField, sourceFields[i])
  /\ nOps' = nOps + 1
  /\ UNCHANGED << selectedFormType, formTemplate, sourceFields, savedMappings >>

\* "Remove" button of a mapped column
RemoveFieldMapping ==
  /\ nOps < MaxOps
  /\ formTemplate # NoTemplate
  /\ \E i \in 1..Len(fieldMappings) :
       fieldMappings' = removeFieldMapping(fieldMappings, fieldMappings[i].k)
  /\ nOps' = nOps + 1
  /\ UNCHANGED << selectedFormType, formTemplate, sourceFields, savedMappings >>

\* "Auto-Suggest Mappings" button
AutoSuggestMappings ==
  /\ nOps < MaxOps
  /\ selectedFormType # ""
  /\ fieldMappings' =
       IF formTemplate = NoTemplate \/ Len(sourceFields) = 0
         THEN fieldMappings
         ELSE autoSuggestMappings(sourceFields, FormFields(formTemplate))
  /\ nOps' = nOps + 1
  /\ UNCHANGED << selectedFormType, formTemplate, sourceFields, savedMappings >>

\* POST /api/data-mapping: what the handler adds to the dataMapping table
DataMappingPOST(authorized, templateFound, body) ==
  IF ~authorized THEN << >>
  ELSE IF body.uploadId = "" \/ body.formType = "" THEN << >>
  ELSE IF ~templateFound THEN << >>
  ELSE << [uploadId |-> body.uploadId, formType |-> body.formType,
           fieldMappings |-> body.fieldMappings, status |-> "ACTIVE"] >>

\* "Save Mapping Only" button: saveMapping posts the session's mapping
SaveMapping ==
  /\ nOps < MaxOps
  /\ selectedFormType # ""
  /\ Len(fieldMappings) > 0
  /\ \E authorized \in BOOLEAN, templateFound \in BOOLEAN :
       savedMappings' = savedMappings \o
         DataMappingPOST(authorized, templateFound,
                         [uploadId |-> "upload1", formType |-> selectedFormType,
                          fieldMappings |-> fieldMappings])
  /\ nOps' = nOps + 1
  /\ UNCHANGED << selectedFormType, formTemplate, sourceFields, fieldMappings >>

-----------------------------------------------------------------------------
(* JavaScript values *)

Null == [t |-> "null"]
Undefined == [t |-> "undefined"]
NaN == [t |-> "NaN"]
Str(s) == [t |-> "string", s |-> s]
Bool(b) == [t |-> "boolean", b |-> b]
\* a finite decimal number: sign, integer part, fraction digits (no trailing 0)
Num(neg, int, frac) == [t |-> "number", neg |-> neg, int |-> int, frac |-> frac]
Int0(n) == Num(FALSE, n, << >>)
\* a variable that holds no result yet
NoResult == [none |-> TRUE]

\* value === null || value === undefined || value === ''
IsMissing(value) == value \in {Null, Undefined} \/ value = Str(<< >>)

\* ToBoolean
Truthy(value) ==
  CASE value.t = "string"  -> value.s # << >>
    [] value.t = "number"  -> ~(value.int = 0 /\ value.frac = << >>)
    [] value.t = "boolean" -> value.b
    [] OTHER -> FALSE

\* a || b
OrElse(a, b) == IF Truthy(a) THEN a ELSE b

\* row[key] : undefined for a key the object does not have
Prop(o, key) == IF ObjHas(o, key) THEN ObjGet(o, key) ELSE Undefined

WhiteSpace == {" ", "\t", "\n", "\r"}

RECURSIVE RunEnd(_, _, _)
\* the index after the longest run of characters of cs that starts at i
RunEnd(s, i, cs) ==
  IF i <= Len(s) /\ s[i] \in cs THEN RunEnd(s, i + 1, cs) ELSE i

RECURSIVE RunStart(_, _, _)
\* the index before the longest run of characters of cs that ends at i
RunStart(s, i, cs) ==
  IF i >= 1 /\ s[i] \in cs THEN RunStart(s, i - 1, cs) ELSE i

\* String.prototype.trim
trim(s) == SubSeq(s, RunEnd(s, 1, WhiteSpace), RunStart(s, Len(s), WhiteSpace))

DigitVal(c) == CHOOSE d \in 0..9 : <<"0","1","2","3","4","5","6","7","8","9">>[d + 1] = c
DigitChar(d) == <<"0","1","2","3","4","5","6","7","8","9">>[d + 1]

RECURSIVE DigitsToInt(_)
DigitsToInt(ds) ==
  IF ds = << >> THEN 0
  ELSE 10 * DigitsToInt(SubSeq(ds, 1, Len(ds) - 1)) + DigitVal(ds[Len(ds)])

RECURSIVE IntToChars(_)
IntToChars(n) ==
  IF n < 10 THEN << DigitChar(n) >>
  ELSE Append(IntToChars(n \div 10), DigitChar(n % 10))

RECURSIVE StripTrailingZeros(_)
StripTrailingZeros(ds) ==
  IF ds # << >> /\ ds[Len(ds)] = 0
    THEN StripTrailingZeros(SubSeq(ds, 1, Len(ds) - 1))
    ELSE ds

\* the decimal literal [sign] digits [. digits] that starts at index p of s:
\* the value and the index after it; NaN when it holds no digit.
\* (Exponents, "Infinity" and hex literals do not occur in the value pools.)
DecimalAt(s, p) ==
  LET hasSign == p <= Len(s) /\ s[p] \in {"+", "-"}
      p1      == IF hasSign THEN p + 1 ELSE p
      intEnd  == RunEnd(s, p1, Digits)
      hasDot  == intEnd <= Len(s) /\ s[intEnd] = "."
      fracEnd == IF hasDot THEN RunEnd(s, intEnd + 1, Digits) ELSE intEnd
      intDs   == SubSeq(s, p1, intEnd - 1)
      fracDs  == IF hasDot THEN SubSeq(s, intEnd + 1, fracEnd - 1) ELSE << >>
  IN  IF intDs = << >> /\ fracDs = << >>
        THEN [value |-> NaN, end |-> p]
        ELSE [value |-> Num(hasSign /\ s[p] = "-", DigitsToInt(intDs),
                            StripTrailingZeros([i \in 1..Len(fracDs) |-> DigitVal(fracDs[i])])),
              end |-> fracEnd]

ParseWholeString(s) ==
  LET
    \* the literal has to take up the whole string
    WholeOrNaN(r) == IF r.value # NaN /\ r.end = Len(s) + 1 THEN r.value ELSE NaN
  IN
  WholeOrNaN(DecimalAt(s, 1))

\* parseFloat of a string: leading white space is skipped and the longest
\* numeric prefix is taken; what follows the prefix is ignored
parseFloat(s) == DecimalAt(s, RunEnd(s, 1, WhiteSpace)).value

\* Number.prototype.toString
NumToString(n) ==
  (IF n.neg THEN <<"-">> ELSE << >>) \o IntToChars(n.int) \o
  (IF n.frac = << >> THEN << >>
   ELSE <<".">> \o [i \in 1..Len(n.frac) |-> DigitChar(n.frac[i])])

\* String(value)
String(value) ==
  CASE value.t = "string"    -> value.s
    [] value.t = "number"    -> NumToString(value)
    [] value.t = "boolean"   -> IF value.b THEN <<"t","r","u","e">> ELSE <<"f","a","l","s","e">>
    [] value.t = "null"      -> <<"n","u","l","l">>
    [] value.t = "undefined" -> <<"u","n","d","e","f","i","n","e","d">>
    [] value.t = "NaN"       -> <<"N","a","N">>

\* Number(value): the whole trimmed string has to be a numeric literal
Number(value) ==
  LET
    \* the empty string is 0
    NumberOfTrimmed(s) == IF s = << >> THEN Int0(0) ELSE ParseWholeString(s)
  IN
  CASE value.t = "number"    -> value
    [] value.t = "NaN"       -> NaN
    [] value.t = "null"      -> Int0(0)
    [] value.t = "undefined" -> NaN
    [] value.t = "boolean"   -> IF value.b THEN Int0(1) ELSE Int0(0)
    [] value.t = "string"    -> NumberOfTrimmed(trim(value.s))

\* String(value).replace(/[$,]/g, '')
StripCurrency(s) == SelectSeq(s, LAMBDA c : c \notin {"$", ","})

-----------------------------------------------------------------------------
(* validateFormData *)

\* formTemplate.find(f => f.name === targetField): its index, 0 when absent
FindField(template, targetField) ==
  LET hits == { i \in 1..Len(template) : template[i].name = targetField }
  IN  IF hits = {} THEN 0 ELSE CHOOSE i \in hits : \A h \in hits : i <= h

ValidationError(row, field, message, value) ==
  [row |-> row, field |-> field, message |-> message, value |-> value]

\* if (isNaN(processedValue)) errors.push(...)
NaNCheck(processedValue, message) ==
  [value |-> processedValue,
   message |-> IF processedValue = NaN THEN message ELSE ""]

\* the type switch on a value that is not missing: the processed value and
\* the message of the error it pushes ("" when it pushes none).
\* No schema of FORM_TEMPLATES declares a date field; that case is left out.
Coerce(type, value) ==
  LET
    \* the decimal case of the type switch
    CoerceDecimal == parseFloat(StripCurrency(String(value)))
    \* String(value).toLowerCase() === 'true' || ... === 'yes' || String(value) === '1'
    BooleanText(s) ==
      \/ toLowerCase(s) \in { <<"t","r","u","e">>, <<"y","e","s">> }
      \/ s = <<"1">>
  IN
  CASE type = "number" -> NaNCheck(Number(value), "must be a number")
    [] type = "decimal" ->
         NaNCheck(CoerceDecimal, "must be a valid decimal number")
    [] type = "boolean" ->
         [value |-> Bool(Truthy(value) \/ BooleanText(String(value))),
          message |-> ""]
    [] type \in {"text", "select"} ->
         [value |-> Str(trim(String(value))), message |-> ""]
    [] OTHER -> [value |-> value, message |-> ""]

\* the error of the type switch is pushed, and the row is kept all the same
CoercedKeepingRow(index, targetField, value, acc, c) ==
  [errors |-> IF c.message = "" THEN acc.errors
              ELSE Append(acc.errors,
                          [row |-> index + 1, field |-> targetField,
                           message |-> c.message, value |-> value]),
   hasErrors |-> acc.hasErrors,
   processedRow |-> ObjSet(acc.processedRow, targetField, c.value)]

\* the error of the type switch, if any, is pushed and the processed value
\* is stored in the row either way
Coerced(index, targetField, value, acc, c) ==
  [errors |-> IF c.message = "" THEN acc.errors
              ELSE Append(acc.errors,
                          ValidationError(index + 1, targetField, c.message, value)),
   hasErrors |-> acc.hasErrors \/ c.message # "",
   processedRow |-> ObjSet(acc.processedRow, targetField, c.value)]

\* the value of an entry whose target the schema does not have is stored too
ValidateEntryAnyTarget(row, index, template, entry, acc) ==
  IF FindField(template, entry.v) = 0
    THEN [acc EXCEPT !.processedRow = ObjSet(@, entry.v, Prop(row, entry.k))]
  ELSE IF template[FindField(template, entry.v)].required
          /\ IsMissing(Prop(row, entry.k))
    THEN [acc EXCEPT
            !.errors = Append(@, ValidationError(index + 1, entry.v,
                                                 "is missing", Prop(row, entry.k))),
            !.hasErrors = TRUE]
  ELSE IF IsMissing(Prop(row, entry.k))
    THEN [acc EXCEPT !.processedRow = ObjSet(@, entry.v, Prop(row, entry.k))]
  ELSE Coerced(index, entry.v, Prop(row, entry.k), acc,
               Coerce(template[FindField(template, entry.v)].type,
                      Prop(row, entry.k)))

\* one [sourceField, targetField] entry of the mapping on one row;
\* acc holds errors, processedRow and hasErrors
ValidateEntry(row, index, template, entry, acc) ==
  LET targetField == entry.v
      f     == FindField(template, targetField)
      value == Prop(row, entry.k)
  IN  IF f = 0 THEN acc
      ELSE IF template[f].required /\ IsMissing(value)
        THEN [acc EXCEPT
                !.errors = Append(@, ValidationError(index + 1, targetField,
                                                     "is missing", value)),
                !.hasErrors = TRUE]
      ELSE IF IsMissing(value)
        THEN [acc EXCEPT !.processedRow = ObjSet(@, targetField, value)]
      ELSE Coerced(index, targetField, value, acc, Coerce(template[f].type, value))

RECURSIVE ValidateEntries(_, _, _, _, _, _)
ValidateEntries(row, index, template, mappings, i, acc) ==
  IF i > Len(mappings) THEN acc
  ELSE ValidateEntries(row, index, template, mappings, i + 1,
                       ValidateEntry(row, index, template, mappings[i], acc))

RECURSIVE ValidateRows(_, _, _, _, _)
\* data.forEach((row, index) => ...), index counted from 0; done holds the
\* errors and the processed rows so far
ValidateRows(data, template, mappings, index, done) ==
  LET
    \* if (!hasErrors) processedData.push(processedRow)
    RowDone(processedData, acc) ==
      [errors |-> acc.errors,
       processedData |-> IF acc.hasErrors THEN processedData
                         ELSE Append(processedData, acc.processedRow)]
  IN
  IF index >= Len(data) THEN done
  ELSE ValidateRows(data, template, mappings, index + 1,
         RowDone(done.processedData,
                 ValidateEntries(data[index + 1], index, template, mappings, 1,
                                 [errors |-> done.errors, processedRow |-> << >>,
                                  hasErrors |-> FALSE])))

validateFormData(data, template, mappings) ==
  LET
    ProcessingResult(r) ==
      [success |-> r.errors = << >>,
       processed |-> Len(r.processedData),
       errors |-> r.errors,
       data |-> r.processedData]
  IN
  ProcessingResult(ValidateRows(data, template, mappings, 0,
                                [errors |-> << >>, processedData |-> << >>]))

-----------------------------------------------------------------------------
(* convertToIncomeEntries *)

getIncomeTypeFromForm(formType) ==
  CASE formType \in {"W2", "W2_CORRECTED", "W3"} -> "W2_WAGES"
    [] formType = "FORM_1099_NEC"  -> "NONEMPLOYEE_COMPENSATION"
    [] formType \in {"FORM_1099_MISC", "SCHEDULE_K1"} -> "BUSINESS_INCOME"
    [] formType = "FORM_1099_INT"  -> "INTEREST"
    [] formType = "FORM_1099_DIV"  -> "DIVIDENDS"
    [] formType = "FORM_1099_G"    -> "UNEMPLOYMENT"
    [] formType = "FORM_1099_R"    -> "RETIREMENT_DISTRIBUTIONS"
    [] formType = "FORM_1099_B"    -> "PROCEEDS_FROM_BROKER"
    [] formType = "FORM_1099_S"    -> "PROCEEDS_FROM_REAL_ESTATE"
    [] formType = "FORM_1099_A"    -> "ACQUISITION_ABANDONMENT_SECURED_PROPERTY"
    [] formType = "FORM_1099_C"    -> "CANCELLATION_OF_DEBT"
    [] formType = "FORM_1099_OID"  -> "ORIGINAL_ISSUE_DISCOUNT"
    [] formType = "FORM_1099_PATR" -> "TAXABLE_PATRONAGE_DIVIDENDS"
    [] formType = "FORM_1099_Q"    -> "QUALIFIED_EDUCATION_EXPENSES"
    [] formType = "FORM_1099_SA"   -> "ARCHER_MSA_DISTRIBUTIONS"
    [] OTHER -> "OTHER_INCOME"

\* Number(x) || 0
NumberOrZero(value) == OrElse(Number(value), Int0(0))

ConvertRow(data, formType, taxReturnId) ==
  LET
    \* Object.values(data).find(v => typeof v === 'number' && v > 0) || 0
    FirstPositiveNumber ==
      LET hits == { i \in 1..Len(data) :
                      /\ data[i].v.t = "number"
                      /\ ~data[i].v.neg
                      /\ ~(data[i].v.int = 0 /\ data[i].v.frac = << >>) }
      IN  IF hits = {} THEN Int0(0)
          ELSE data[CHOOSE i \in hits : \A h \in hits : i <= h].v
  IN
  LET empty == Str(<< >>)
      baseEntry ==
        [taxReturnId |-> taxReturnId,
         incomeType |-> getIncomeTypeFromForm(formType),
         description |-> <<"Imported from", formType>>,
         amount |-> Int0(0),
         payerName |-> OrElse(Prop(data, "payerName"),
                              OrElse(Prop(data, "employerName"), empty)),
         payerTIN |-> OrElse(Prop(data, "payerTIN"),
                             OrElse(Prop(data, "employerEIN"), empty)),
         employerName |-> OrElse(Prop(data, "employerName"), empty),
         employerEIN |-> OrElse(Prop(data, "employerEIN"), empty)]
      payer == [baseEntry EXCEPT
                  !.payerName = OrElse(Prop(data, "payerName"), empty),
                  !.payerTIN = OrElse(Prop(data, "payerTIN"), empty)]
  IN  CASE formType = "W2" ->
             [baseEntry EXCEPT !.incomeType = "W2_WAGES",
                               !.amount = NumberOrZero(Prop(data, "wages"))]
        [] formType = "FORM_1099_NEC" ->
             [payer EXCEPT !.incomeType = "NONEMPLOYEE_COMPENSATION",
                           !.amount = NumberOrZero(Prop(data, "nonemployeeCompensation"))]
        [] formType = "FORM_1099_INT" ->
             [payer EXCEPT !.incomeType = "INTEREST",
                           !.amount = NumberOrZero(Prop(data, "interestIncome"))]
        [] formType = "FORM_1099_DIV" ->
             [payer EXCEPT !.incomeType = "DIVIDENDS",
                           !.amount = NumberOrZero(Prop(data, "totalOrdinaryDividends"))]
        [] OTHER ->
             [baseEntry EXCEPT !.amount = FirstPositiveNumber]

\* only the rows with a number for wages get an entry
ConvertRowsWithWages(processedData, formType, taxReturnId) ==
  LET paid == SelectSeq(processedData,
                        LAMBDA row : Number(Prop(row, "wages")) # NaN)
  IN  [i \in 1..Len(paid) |-> ConvertRow(paid[i], formType, taxReturnId)]

\* the amount of the default branch is the first number, whatever its sign
ConvertRowsAnyNumber(processedData, formType, taxReturnId) ==
  LET FirstNumber(data) ==
        LET hits == { i \in 1..Len(data) : data[i].v.t = "number" }
        IN  IF hits = {} THEN Int0(0)
            ELSE data[CHOOSE i \in hits : \A h \in hits : i <= h].v
      designated == {"W2", "FORM_1099_NEC", "FORM_1099_INT", "FORM_1099_DIV"}
  IN  [i \in 1..Len(processedData) |->
         LET entry == ConvertRow(processedData[i], formType, taxReturnId)
         IN  IF formType \in designated THEN entry
             ELSE [entry EXCEPT !.amount = FirstNumber(processedData[i])]]

\* the category follows the fields of the row instead of the form type
ConvertRowsByContent(processedData, formType, taxReturnId) ==
  [i \in 1..Len(processedData) |->
     LET entry == ConvertRow(processedData[i], formType, taxReturnId)
     IN  IF Prop(processedData[i], "wages") # Undefined
         THEN [entry EXCEPT !.incomeType = "W2_WAGES"]
         ELSE entry]

convertToIncomeEntries(processedData, formType, taxReturnId) ==
  [i \in 1..Len(processedData) |-> ConvertRow(processedData[i], formType, taxReturnId)]

-----------------------------------------------------------------------------
(* each specification leaves the state of the others at rest *)

IdleUI ==
  /\ selectedFormType = "" /\ formTemplate = NoTemplate /\ sourceFields = << >>
  /\ fieldMappings = << >> /\ savedMappings = << >> /\ nOps = 0

IdleRoundTrip == rtPrior = << >> /\ rtSource = "" /\ rtStep = "idle"

IdlePipeline ==
  /\ upload = NoResult /\ dataMapping = NoResult
  /\ plStage = "idle"
  /\ validationResult = NoResult /\ convertedEntries = << >>
  /\ processedFormTable = << >> /\ incomeEntryTable = << >>
  /\ response = NoResult
  /\ taxReturnTable = << >> /\ plPending = 0 /\ plRequest = NoResult

IdleParse == parseFile = NoResult /\ parseResult = NoResult

IdleOcr ==
  /\ ocrDocument = NoResult /\ backendResult = NoResult
  /\ uploadRow = NoResult /\ documentRow = NoResult
  /\ sseEvents = << >> /\ ocrExtracted = NoResult /\ ocrResponse = NoResult
  /\ sseLog = << >> /\ rowUpdates = NoResult

IdleUpload ==
  /\ upRequest = NoResult /\ upRoute = "" /\ upParsed = FALSE
  /\ upDir = << >> /\ upTable = << >> /\ upResponse = NoResult

IdlePoll ==
  /\ pollAttempt = 0 /\ pollPhase = "idle" /\ pollResult = NoResult
  /\ pollStatus = "" /\ pollFetches = 0 /\ pollWaited = 0

-----------------------------------------------------------------------------
(* POST /api/data-mapping/[id]/process *)

JaneDoe == <<"J","a","n","e"," ","D","o","e">>

RECURSIVE ObjFromCells(_, _, _)
\* the object of one row, keys in column order.  CSV: every field as read;
\* XLSX: obj[header] = row[index] || null; JSON: the keys the element has
ObjFromCells(fileType, headers, cells) ==
  IF headers = << >> \/ cells = << >> THEN << >>
  ELSE (CASE fileType = "CSV" -> << [k |-> Head(headers), v |-> Head(cells)] >>
          [] fileType = "XLSX" ->
               << [k |-> Head(headers), v |-> OrElse(Head(cells), Null)] >>
          [] fileType = "JSON" ->
               IF Head(cells) = Undefined THEN << >>
               ELSE << [k |-> Head(headers), v |-> Head(cells)] >>)
       \o ObjFromCells(fileType, Tail(headers), Tail(cells))

\* the branches that read the upload file into fileData: Papa.parse with
\* header: true; sheet_to_json rows after the header row; JSON.parse
LoadUploadFile(file) ==
  IF file.fileType \in {"CSV", "XLSX", "JSON"}
    THEN [i \in 1..Len(file.rows) |->
            ObjFromCells(file.fileType, file.headers, file.rows[i])]
    ELSE << >>

\* a request answered before anything is written
Rejected(file, mapping, resp) ==
  [response |-> resp, status |-> mapping.status,
   processedForms |-> << >>, incomeEntries |-> << >>,
   uploadStatus |-> file.status]

ProcessValidated(file, fileData, formType, taxReturnId, result) ==
  LET
    \* if (!validationResult.success): the mapping is marked FAILED and the
    \* errors are returned
    ValidationFailed ==
      [response |-> [status |-> 200, success |-> FALSE,
                     errors |-> result.errors,
                     processed |-> result.processed],
       status |-> "FAILED",
       processedForms |-> << >>, incomeEntries |-> << >>,
       uploadStatus |-> file.status]
    \* the processed forms and income entries are created, the mapping and the
    \* upload marked COMPLETED
    Persisted(entries) ==
      [response |-> [status |-> 200, success |-> TRUE,
                     processed |-> Len(entries), errors |-> << >>,
                     processedForms |-> Len(result.data),
                     incomeEntries |-> Len(entries)],
       status |-> "COMPLETED",
       processedForms |->
         [i \in 1..Len(result.data) |->
            [taxReturnId |-> taxReturnId, formType |-> formType,
             formData |-> result.data[i],
             originalRow |-> fileData[i], rowNumber |-> i,
             status |-> "COMPLETED"]],
       incomeEntries |-> entries,
       uploadStatus |-> "COMPLETED"]
  IN
  IF ~result.success THEN ValidationFailed
  ELSE Persisted(convertToIncomeEntries(result.data, formType, taxReturnId))

ProcessLoaded(file, mapping, formType, taxReturnId, fileData, template) ==
  IF template = << >> THEN
    Rejected(file, mapping, [status |-> 404, error |-> "Form template not found"])
  ELSE ProcessValidated(file, fileData, formType, taxReturnId,
                        validateFormData(fileData, template, mapping.fieldMappings))

\* what one request does to the tables, and its response
ProcessMapping(authorized, taxReturnId, mappingFound, readable, file, mapping, formType) ==
  IF ~authorized THEN
    Rejected(file, mapping, [status |-> 401, error |-> "Unauthorized"])
  ELSE IF taxReturnId = "" THEN
    Rejected(file, mapping, [status |-> 400, error |-> "Tax return ID is required"])
  ELSE IF ~mappingFound THEN
    Rejected(file, mapping, [status |-> 404, error |-> "Mapping not found"])
  ELSE IF ~readable THEN
    Rejected(file, mapping, [status |-> 500, error |-> "Failed to load upload file"])
  ELSE ProcessLoaded(file, mapping, formType, taxReturnId,
                     LoadUploadFile(file), FORM_TEMPLATES(formType))

InitPipeline ==
  LET
    \* An upload file as a table: its column names and, per data row, one cell
    \* per column (Undefined: the cell or key is absent from the file).
    UploadColumns == <<"EmpName", "EmpWages", "FedWH">>
    CellRowPool ==
      { << Str(JaneDoe), Str(<<"$","5","0",",","0","0","0",".","0","0">>),
           Str(<<"$","6",",","0","0","0">>) >>,
        << Str(<< >>), Str(<< >>), Str(<< >>) >>,
        << Str(<<" ","B","o","b"," ">>), Str(<<"1","2","a","b","c">>),
           Str(<<"a","b","c">>) >>,
        << Null, Num(FALSE, 12345, <<6, 7>>), Undefined >>,
        << Str(<<"A","l">>), Str(<<"$","1","2",",","3","4","5",".","6","7">>),
           Int0(0) >>,
        << Str(<<"S","u","e">>), Str(<<"0">>), Str(<<"n","o">>) >> }
    \* the mappings stored for the upload (POST /api/data-mapping takes any)
    StoredMappingPool ==
      { << [k |-> "EmpName", v |-> "employeeName"], [k |-> "EmpWages", v |-> "wages"],
           [k |-> "FedWH", v |-> "federalTaxWithheld"] >>,
        << [k |-> "EmpName", v |-> "employeeName"], [k |-> "EmpWages", v |-> "wages"],
           [k |-> "FedWH", v |-> "federalIncomeTaxWithheld"] >>,
        << [k |-> "EmpWages", v |-> "wages"], [k |-> "FedWH", v |-> "wages"] >>,
        << [k |-> "EmpName", v |-> "employeeName"] >>,
        << [k |-> "EmpWages", v |-> "retirementPlan"],
           [k |-> "FedWH", v |-> "statutoryEmployee"] >> }
  IN
  /\ \E fileType \in {"CSV", "XLSX", "JSON"} :
       \E n \in 1..MaxRows :
         \E rows \in [1..n -> CellRowPool] :
           /\ fileType = "CSV" =>
                \A i \in 1..n : \A j \in 1..Len(rows[i]) : rows[i][j].t = "string"
           /\ upload = [fileType |-> fileType, headers |-> UploadColumns,
                        rows |-> rows, status |-> "COMPLETED",
                        userId |-> "u1"]
  /\ \E m \in StoredMappingPool :
       dataMapping = [fieldMappings |-> m, formType |-> "W2", status |-> "ACTIVE",
                      userId |-> "u1"]
  /\ plStage = "loaded"
  /\ validationResult = NoResult
  /\ convertedEntries = << >>
  /\ processedFormTable = << >>
  /\ incomeEntryTable = << >>
  /\ response = NoResult
  /\ taxReturnTable = << [id |-> "tr1", userId |-> "u1"] >>
  /\ plPending = 1
  /\ plRequest = NoResult
  /\ IdleUI /\ IdleRoundTrip /\ IdleParse /\ IdleOcr
  /\ IdleUpload /\ IdlePoll

\* validateFormData applied to the rows of the upload
ApplyValidate ==
  /\ plStage = "loaded"
  /\ plStage' = "validated"
  /\ validationResult' = validateFormData(LoadUploadFile(upload),
                                          FORM_TEMPLATES(dataMapping.formType),
                                          dataMapping.fieldMappings)
  /\ UNCHANGED << upload, dataMapping, convertedEntries, processedFormTable,
                  incomeEntryTable, response, taxReturnTable, plPending,
                  plRequest, uiVars, rtVars, parseVars, ocrVars,
                  upVars, pollVars >>

\* convertToIncomeEntries applied to the validated rows
ApplyConvert ==
  /\ plStage = "validated"
  /\ plStage' = "converted"
  /\ convertedEntries' = convertToIncomeEntries(validationResult.data,
                                                dataMapping.formType, "tr1")
  /\ UNCHANGED << upload, dataMapping, validationResult, processedFormTable,
                  incomeEntryTable, response, taxReturnTable, plPending,
                  plRequest, uiVars, rtVars, parseVars, ocrVars,
                  upVars, pollVars >>

\* one request to the process endpoint
ProcessMappingPOST ==
  LET
    \* the writes of one request and its response
    Respond(r) ==
      /\ response' = r.response
      /\ dataMapping' = [dataMapping EXCEPT !.status = r.status]
      /\ upload' = [upload EXCEPT !.status = r.uploadStatus]
      /\ processedFormTable' = processedFormTable \o r.processedForms
      /\ incomeEntryTable' = incomeEntryTable \o r.incomeEntries
    \* the users with an account
    Users == {dataMapping.userId, upload.userId}
               \cup { taxReturnTable[i].userId : i \in DOMAIN taxReturnTable }
  IN
  /\ plPending > 0
  /\ plPending' = plPending - 1
  \* the session of a user with an account or none; a body that names a tax
  \* return or none; params.id names the mapping or not; findFirst where
  \* { id: params.id, userId: user.id }
  /\ \E authorized \in BOOLEAN, user \in Users,
        taxReturnId \in {""} \cup { taxReturnTable[i].id : i \in DOMAIN taxReturnTable },
        mappingExists \in BOOLEAN, readable \in BOOLEAN :
       \* without a session the body is not read
       /\ plRequest' = IF authorized
                         THEN [user |-> user, taxReturnId |-> taxReturnId]
                         ELSE [user |-> "", taxReturnId |-> ""]
       /\ Respond(ProcessMapping(authorized, taxReturnId,
                                  mappingExists /\ dataMapping.userId = user,
                                  readable, upload, dataMapping,
                                  dataMapping.formType))
  /\ UNCHANGED << plStage, validationResult, convertedEntries, taxReturnTable,
                  uiVars, rtVars, parseVars, ocrVars,
                  upVars, pollVars >>

NextPipeline == ApplyValidate \/ ApplyConvert \/ ProcessMappingPOST

-----------------------------------------------------------------------------
(* Requests of two users to the process endpoint *)

\* One mapping and its upload, each owned by one of two users (POST
\* /api/data-mapping stores the uploadId of the body under the user of the
\* session), a tax return of each user, and up to MaxRequests requests.
InitProcess ==
  LET RequestRowPool ==
        { << Str(JaneDoe), Str(<<"5","0","0","0","0">>), Str(<<"6","0","0","0">>) >>,
          << Str(<<"A","l">>), Str(<<"1","2","a","b","c">>), Str(<<"0">>) >> }
  IN
  /\ \E fileType \in {"CSV", "JSON"}, uploadOwner \in {"u1", "u2"} :
       \E n \in 1..MaxRows :
         \E rows \in [1..n -> RequestRowPool] :
           upload = [fileType |-> fileType,
                     headers |-> <<"EmpName", "EmpWages", "FedWH">>,
                     rows |-> rows, status |-> "COMPLETED",
                     userId |-> uploadOwner]
  /\ \E mappingOwner \in {"u1", "u2"} :
       dataMapping =
         [fieldMappings |->
            << [k |-> "EmpName", v |-> "employeeName"],
               [k |-> "EmpWages", v |-> "wages"],
               [k |-> "FedWH", v |-> "federalIncomeTaxWithheld"] >>,
          formType |-> "W2", status |-> "ACTIVE", userId |-> mappingOwner]
  /\ taxReturnTable = << [id |-> "tr1", userId |-> "u1"],
                         [id |-> "tr2", userId |-> "u2"] >>
  /\ plPending \in 1..MaxRequests
  /\ plRequest = NoResult
  /\ plStage = "loaded"
  /\ validationResult = NoResult
  /\ convertedEntries = << >>
  /\ processedFormTable = << >>
  /\ incomeEntryTable = << >>
  /\ response = NoResult
  /\ IdleUI /\ IdleRoundTrip /\ IdleParse /\ IdleOcr
  /\ IdleUpload /\ IdlePoll

-----------------------------------------------------------------------------
(* convertToIncomeEntries on validated rows of any form type *)

\* The rows are objects keyed by target field, as validateFormData returns
\* them: texts trimmed, decimals as numbers (parseFloat keeps the sign).
InitConvert ==
  LET Acme == Str(<<"A","c","m","e">>)
      AcmeEIN == Str(<<"1","2","-","3","4","5","6","7","8","9">>)
      Bank == Str(<<"B","a","n","k">>)
      BankTIN == Str(<<"9","8","-","7","6","5","4","3","2","1">>)
      ValidatedRowPool ==
        { << [k |-> "employerName", v |-> Acme], [k |-> "employerEIN", v |-> AcmeEIN],
             [k |-> "wages", v |-> Int0(50000)] >>,
          << [k |-> "payerName", v |-> Bank], [k |-> "payerTIN", v |-> BankTIN],
             [k |-> "nonemployeeCompensation", v |-> Num(FALSE, 1200, <<5>>)],
             [k |-> "interestIncome", v |-> Int0(30)],
             [k |-> "totalOrdinaryDividends", v |-> Int0(7)] >>,
          << [k |-> "payerName", v |-> Bank], [k |-> "payerTIN", v |-> BankTIN],
             [k |-> "wages", v |-> Int0(41000)] >>,
          << [k |-> "employerName", v |-> Acme], [k |-> "employerEIN", v |-> AcmeEIN],
             [k |-> "federalIncomeTaxWithheld", v |-> Int0(0)],
             [k |-> "nonemployeeCompensation", v |-> Int0(900)] >>,
          << [k |-> "employerName", v |-> Acme],
             [k |-> "wages", v |-> Num(TRUE, 500, << >>)],
             [k |-> "interestIncome", v |-> Num(TRUE, 12, <<5>>)] >>,
          << [k |-> "payerName", v |-> Bank],
             [k |-> "wages", v |-> Str(<<"a","b","c">>)],
             [k |-> "totalOrdinaryDividends", v |-> Str(<<"n","/","a">>)] >> }
  IN
  /\ \E n \in 0..MaxConvertRows :
       \E rows \in [1..n -> ValidatedRowPool] :
         validationResult = [success |-> TRUE, data |-> rows,
                             errors |-> << >>, processed |-> n]
  \* "FORM_1099_LTC" is a form type outside the table of getIncomeTypeFromForm
  /\ \E formType \in {"W2", "FORM_1099_NEC", "FORM_1099_INT", "FORM_1099_DIV",
                       "FORM_1099_MISC", "FORM_1099_G", "UNKNOWN",
                       "FORM_1099_LTC"} :
       dataMapping = [fieldMappings |-> << >>, formType |-> formType,
                      status |-> "ACTIVE", userId |-> "u1"]
  /\ plStage = "validated"
  /\ upload = NoResult
  /\ convertedEntries = << >>
  /\ processedFormTable = << >>
  /\ incomeEntryTable = << >>
  /\ response = NoResult
  /\ taxReturnTable = << >> /\ plPending = 0 /\ plRequest = NoResult
  /\ IdleUI /\ IdleRoundTrip /\ IdleParse /\ IdleOcr
  /\ IdleUpload /\ IdlePoll

NextConvert == ApplyConvert
-----------------------------------------------------------------------------
(* parseUploadedFile: the format parsers *)

\* rows kept for the preview
PreviewRows == 5

\* slice(0, n) and substring(0, n)
Truncated(s, n) == SubSeq(s, 1, IF Len(s) < n THEN Len(s) ELSE n)

\* data.slice(0, 5)
PreviewWhole(data) == data

Preview(data) == Truncated(data, PreviewRows)

ParseFailure(error) == [success |-> FALSE, error |-> error]

ParseSuccess(data, headers) ==
  [success |-> TRUE, data |-> data, headers |-> headers,
   totalRows |-> Len(data), preview |-> Preview(data)]

RECURSIVE Zip(_, _)
\* the object Papa builds for one line in header mode
Zip(headers, cells) ==
  IF headers = << >> \/ cells = << >> THEN << >>
  ELSE << [k |-> Head(headers), v |-> Str(Head(cells))] >>
       \o Zip(Tail(headers), Tail(cells))

\* Papa.parse(file, { header: true, skipEmptyLines: true }) on the lines of
\* the file, each line a sequence of fields: a line of one empty field is
\* skipped, and a line whose field count differs from the header's is
\* reported in results.errors
PapaParse(lines) ==
  LET EmptyLine(l) == l = << << >> >>
      kept == SelectSeq(lines, LAMBDA l : ~EmptyLine(l))
      fields == IF kept = << >> THEN << >> ELSE Head(kept)
      body == IF kept = << >> THEN << >> ELSE Tail(kept)
  IN  [data |-> [i \in 1..Len(body) |-> Zip(fields, body[i])],
       fields |-> fields,
       errors |-> { i \in 1..Len(body) : Len(body[i]) # Len(fields) }]

parseCSVFile(file) ==
  LET results == PapaParse(file.lines)
  IN  IF results.errors # {} THEN ParseFailure("CSV parsing errors")
      ELSE ParseSuccess(results.data, results.fields)

\* the sheet is the array of arrays sheet_to_json(worksheet, { header: 1 })
\* returns for the first worksheet; headers are the cells of its first row
parseExcelFile(file) ==
  LET
    \* row.some(cell => cell !== null && cell !== undefined && cell !== '')
    NonBlankRow(row) == \E j \in 1..Len(row) : ~IsMissing(row[j])
    \* row[index], undefined past the end of the row
    CellAt(row, index) == IF index <= Len(row) THEN row[index] ELSE Undefined
  IN
  LET jsonData == file.sheet
  IN  IF Len(jsonData) = 0 THEN ParseFailure("Excel file appears to be empty")
      ELSE
        LET headers == jsonData[1]
            dataRows == SelectSeq(Tail(jsonData), NonBlankRow)
            objectData ==
              [r \in 1..Len(dataRows) |->
                 [index \in 1..Len(headers) |->
                    [k |-> headers[index],
                     v |-> OrElse(CellAt(dataRows[r], index), Null)]]]
        IN  ParseSuccess(objectData, headers)

\* the file text parses to an array, to one object, to another JSON value,
\* or JSON.parse throws
parseJSONFile(file) ==
  CASE file.shape = "invalid" -> ParseFailure("JSON parsing error")
    [] file.shape = "scalar" ->
         ParseFailure("JSON file must contain an array of objects or a single object")
    [] file.shape \in {"array", "object"} ->
         IF Len(file.elements) = 0 THEN ParseFailure("JSON file contains no data")
         ELSE ParseSuccess(file.elements, ObjKeys(file.elements[1]))

parseUploadedFile(file) ==
  CASE file.fileType = "csv" -> parseCSVFile(file)
    [] file.fileType \in {"xlsx", "xls"} -> parseExcelFile(file)
    [] file.fileType = "json" -> parseJSONFile(file)
    [] file.fileType \in {"pdf", "png", "jpg", "jpeg", "tiff", "tif", "bmp"} ->
         ParseFailure("OCR documents require server-side processing")
    [] OTHER -> ParseFailure("Unsupported file type")

FilePool ==
  LET
    ParseHeaders == <<"name", "amount">>
    \* lines of a CSV file after the header: an empty line, two well-formed
    \* lines and a line with a field too few
    CsvLinePool ==
      { << << >> >>, << <<"a">>, <<"1">> >>, << <<"b">>, <<"2">> >>,
        << <<"c">> >> }
    \* rows of a sheet after the header row
    SheetRowPool ==
      { << >>, << Str(<<"a">>), Int0(1) >>, << Str(<< >>), Int0(0) >>,
        << Undefined, Str(<<"b">>) >> }
    JsonElementPool ==
      { << [k |-> "name", v |-> Str(<<"a">>)], [k |-> "amount", v |-> Int0(1)] >>,
        << [k |-> "amount", v |-> Int0(2)] >> }
  IN
  UNION { { [fileType |-> "csv",
              lines |-> << << Chars("name"), Chars("amount") >> >> \o body]
              : body \in [1..n -> CsvLinePool] }
          \cup
          { [fileType |-> "xlsx", sheet |-> << ParseHeaders >> \o body]
              : body \in [1..n -> SheetRowPool] }
          \cup
          { [fileType |-> "json", shape |-> "array", elements |-> body]
              : body \in [1..n -> JsonElementPool] }
          : n \in 0..MaxParseRows }
  \cup { [fileType |-> "xlsx", sheet |-> << >>] }
  \cup { [fileType |-> "json", shape |-> "object", elements |-> << e >>]
           : e \in JsonElementPool }
  \cup { [fileType |-> "json", shape |-> s, elements |-> << >>]
           : s \in {"scalar", "invalid"} }
  \cup { [fileType |-> t] : t \in {"pdf", "txt"} }

InitParse ==
  /\ parseFile \in FilePool
  /\ parseResult = NoResult
  /\ IdleUI /\ IdleRoundTrip /\ IdlePipeline /\ IdleOcr
  /\ IdleUpload /\ IdlePoll

ParseUploadedFile ==
  /\ parseResult = NoResult
  /\ parseResult' = parseUploadedFile(parseFile)
  /\ UNCHANGED << parseFile, uiVars, rtVars, plVars, ocrVars,
                  upVars, pollVars >>

NextParse == ParseUploadedFile

-----------------------------------------------------------------------------
(* Regular expressions, as String.prototype.match runs them: a pattern is a
   sequence of nodes matched left to right with backtracking; quantifiers
   are greedy and alternatives are tried in order *)

\* a character class and its complement
Ch(cs) == [t |-> "set", cs |-> cs, neg |-> FALSE]
NotCh(cs) == [t |-> "set", cs |-> cs, neg |-> TRUE]
\* x{min,max} and x{min,} on a character class
Rep(node, min, max) == [t |-> "rep", of |-> node, min |-> min, max |-> max, open |-> FALSE]
Star(node) == [t |-> "rep", of |-> node, min |-> 0, max |-> 0, open |-> TRUE]
Plus(node) == [t |-> "rep", of |-> node, min |-> 1, max |-> 1, open |-> TRUE]
Maybe(node) == Rep(node, 0, 1)
\* (?:a|b|...)
Alt(alts) == [t |-> "alt", alts |-> alts]
\* the parentheses of capture group n
Open(n) == [t |-> "open", n |-> n]
Close(n) == [t |-> "close", n |-> n]
WordBoundary == [t |-> "wb"]

\* the i flag: a class matches a letter in either case
IgnoreCase(cs) ==
  LET UpperChar(c) ==
        IF c \in Range(LowerCase)
          THEN UpperCase[CHOOSE i \in 1..26 : LowerCase[i] = c]
          ELSE c
  IN  cs \cup { LowerChar(c) : c \in cs } \cup { UpperChar(c) : c \in cs }

\* literal text under the i flag
LitI(chars) ==
  << [t |-> "lit", sets |-> [i \in 1..Len(chars) |-> IgnoreCase({chars[i]})]] >>

WordChars == Letters \cup Digits \cup {"_"}
\* the dot matches anything but a line terminator
AnyChar == NotCh({"\n", "\r"})

InClass(node, c) == (c \in node.cs) # node.neg

\* how many characters from pos on are in the class, up to limit (-1: no limit)
RunLength(node, s, pos, limit) ==
  LET \* the first index from pos on whose character is not in the class
      end == CHOOSE j \in pos..(Len(s) + 1) :
               /\ j = Len(s) + 1 \/ ~InClass(node, s[j])
               /\ \A i \in pos..(j - 1) : InClass(node, s[i])
  IN  IF limit >= 0 /\ limit < end - pos THEN limit ELSE end - pos

NoMatch == [ok |-> FALSE]
NoCaptures == << [from |-> 0, to |-> 0], [from |-> 0, to |-> 0] >>

RECURSIVE MatchHere(_, _, _, _)
RECURSIVE TryRep(_, _, _, _, _, _)
RECURSIVE TryAlt(_, _, _, _, _, _)

\* the nodes k matched at pos: the end of the match and the captures
MatchHere(k, s, pos, caps) ==
  IF k = << >> THEN [ok |-> TRUE, end |-> pos, caps |-> caps]
  ELSE
    CASE Head(k).t = "set" ->
           IF pos <= Len(s) /\ InClass(Head(k), s[pos])
             THEN MatchHere(Tail(k), s, pos + 1, caps)
             ELSE NoMatch
      [] Head(k).t = "lit" ->
           IF /\ pos + Len(Head(k).sets) - 1 <= Len(s)
              /\ \A i \in 1..Len(Head(k).sets) : s[pos + i - 1] \in Head(k).sets[i]
             THEN MatchHere(Tail(k), s, pos + Len(Head(k).sets), caps)
             ELSE NoMatch
      [] Head(k).t = "rep" ->
           TryRep(Head(k), Tail(k), s, pos, caps,
                  RunLength(Head(k).of, s, pos,
                            IF Head(k).open THEN -1 ELSE Head(k).max))
      [] Head(k).t = "alt" -> TryAlt(Head(k).alts, 1, Tail(k), s, pos, caps)
      [] Head(k).t = "open" ->
           MatchHere(Tail(k), s, pos,
                     [caps EXCEPT ![Head(k).n] = [from |-> pos, to |-> pos]])
      [] Head(k).t = "close" ->
           MatchHere(Tail(k), s, pos, [caps EXCEPT ![Head(k).n].to = pos])
      [] Head(k).t = "wb" ->
           IF (pos > 1 /\ s[pos - 1] \in WordChars)
                # (pos <= Len(s) /\ s[pos] \in WordChars)
             THEN MatchHere(Tail(k), s, pos, caps)
           ELSE NoMatch

\* greedy: the longest run first, then one character less at a time
TryRep(node, rest, s, pos, caps, count) ==
  LET LongestMatch(counts) ==
        IF counts = {} THEN NoMatch
        ELSE MatchHere(rest, s,
                       pos + (CHOOSE c \in counts : \A d \in counts : d <= c),
                       caps)
  IN  LongestMatch({ c \in node.min..count : MatchHere(rest, s, pos + c, caps).ok })

TryAlt(alts, i, rest, s, pos, caps) ==
  IF i > Len(alts) THEN NoMatch
  ELSE LET r == MatchHere(alts[i] \o rest, s, pos, caps)
       IN  IF r.ok THEN r ELSE TryAlt(alts, i + 1, rest, s, pos, caps)

\* text.match(pattern) from index start on: the leftmost match that starts
\* there or later
SearchFrom(pattern, s, start) ==
  LET FoundAt(index, r) ==
        [ok |-> TRUE, index |-> index, end |-> r.end, caps |-> r.caps]
      MatchAt(index) == FoundAt(index, MatchHere(pattern, s, index, NoCaptures))
      Leftmost(starts) ==
        IF starts = {} THEN NoMatch
        ELSE MatchAt(CHOOSE i \in starts : \A j \in starts : i <= j)
  IN  Leftmost({ i \in start..(Len(s) + 1) :
                   MatchHere(pattern, s, i, NoCaptures).ok })

\* match[n]: the text of capture group n, undefined when the group did not
\* take part in the match
Group(s, m, n) ==
  IF m.caps[n].from = 0 THEN Undefined
  ELSE Str(SubSeq(s, m.caps[n].from, m.caps[n].to - 1))

-----------------------------------------------------------------------------
(* extractDataFromText: the text extraction of the upload processing route *)

WS == Ch(WhiteSpace)

\* [:\s]*\$?([0-9,]+\.?\d*)
AmountTail ==
  << Star(Ch({":"} \cup WhiteSpace)), Maybe(Ch({"$"})), Open(1),
     Plus(Ch(Digits \cup {","})), Maybe(Ch({"."})), Star(Ch(Digits)), Close(1) >>

\* ([A-Z][a-z]+\s+[A-Z][a-z]+), under the i flag
PersonName ==
  << Open(1), Ch(Letters), Plus(Ch(Letters)), Plus(WS),
     Ch(Letters), Plus(Ch(Letters)), Close(1) >>

\* ([A-Z][A-Za-z\s,.&-]{5,50}), under the i flag
OrganisationName ==
  << Open(1), Ch(Letters),
     Rep(Ch(Letters \cup WhiteSpace \cup {",", ".", "&", "-"}), 5, 50), Close(1) >>

\* (?:'s)?\s+name:?\s*
NameLabel ==
  << Alt(<< LitI(<<"'","s">>), << >> >>), Plus(WS) >> \o LitI(<<"n","a","m","e">>)
  \o << Maybe(Ch({":"})), Star(WS) >>

amountPatterns ==
  << [field |-> "wages",
      patterns |-> << LitI(<<"w","a","g","e">>) \o << Maybe(Ch(IgnoreCase({"s"}))) >> \o AmountTail,
                      LitI(<<"c","o","m","p","e","n","s","a","t","i","o","n">>) \o AmountTail >>],
     [field |-> "federalTaxWithheld",
      patterns |-> << LitI(<<"f","e","d","e","r","a","l">>) \o << Star(AnyChar) >> \o LitI(<<"t","a","x">>)
                      \o << Star(AnyChar) >> \o LitI(<<"w","i","t","h","h","e","l","d">>) \o AmountTail >>],
     [field |-> "interestIncome",
      patterns |-> << LitI(<<"i","n","t","e","r","e","s","t">>) \o << Star(AnyChar) >> \o LitI(<<"i","n","c","o","m","e">>)
                      \o AmountTail >>],
     [field |-> "dividendIncome",
      patterns |-> << LitI(<<"d","i","v","i","d","e","n","d">>) \o << Star(AnyChar) >> \o LitI(<<"i","n","c","o","m","e">>)
                      \o AmountTail >>],
     [field |-> "nonemployeeCompensation",
      patterns |-> << LitI(<<"n","o","n","e","m","p","l","o","y","e","e">>) \o << Star(AnyChar) >>
                      \o LitI(<<"c","o","m","p","e","n","s","a","t","i","o","n">>) \o AmountTail >>] >>

\* text.match(pattern)?.[1]
FirstCapture(s, pattern) ==
  LET CaptureOf(m) == IF m.ok THEN Group(s, m, 1) ELSE Undefined
  IN  CaptureOf(SearchFrom(pattern, s, 1))

OrNext(found, next) == IF Truthy(found) THEN found ELSE next

RECURSIVE FirstTruthyCapture(_, _, _)
\* for (const pattern of patterns) { if (match?.[1]) { ...; break } }
FirstTruthyCapture(s, patterns, i) ==
  IF i > Len(patterns) THEN Undefined
  ELSE OrNext(FirstCapture(s, patterns[i]), FirstTruthyCapture(s, patterns, i + 1))

\* the property is assigned only when something was found
SetIfFound(data, key, value) ==
  IF value = Undefined THEN data ELSE ObjSet(data, key, value)

\* match[1].trim()
Trimmed(value) == IF value = Undefined THEN Undefined ELSE Str(trim(value.s))

\* match[1].replace(/,/g, '')
StripCommas(s) == SelectSeq(s, LAMBDA c : c # ",")

RECURSIVE ExtractAmounts(_, _, _)
\* for (const { field, patterns } of amountPatterns)
ExtractAmounts(text, i, data) ==
  LET WithoutCommas(value) ==
        IF value = Undefined THEN Undefined ELSE Str(StripCommas(value.s))
  IN  IF i > Len(amountPatterns) THEN data
      ELSE ExtractAmounts(text, i + 1,
             SetIfFound(data, amountPatterns[i].field,
                        WithoutCommas(FirstTruthyCapture(
                                        text, amountPatterns[i].patterns, 1))))

extractDataFromText(text) ==
  LET
    namePatterns ==
      << LitI(<<"E","m","p","l","o","y","e","e">>) \o NameLabel \o PersonName,
         LitI(<<"R","e","c","i","p","i","e","n","t">>) \o NameLabel \o PersonName,
         LitI(<<"N","a","m","e">>) \o << Maybe(Ch({":"})), Star(WS) >> \o PersonName >>
    employerPatterns ==
      << LitI(<<"E","m","p","l","o","y","e","r">>) \o NameLabel \o OrganisationName,
         LitI(<<"P","a","y","e","r">>) \o NameLabel \o OrganisationName,
         LitI(<<"C","o","m","p","a","n","y">>) \o << Maybe(Ch({":"})), Star(WS) >> \o OrganisationName >>
    \* /EIN|TIN[:\s]*([0-9-]{9,11})/i: the alternation splits the whole pattern
    einPattern ==
      << Alt(<< LitI(<<"E","I","N">>),
                LitI(<<"T","I","N">>) \o << Star(Ch({":"} \cup WhiteSpace)), Open(1),
                                  Rep(Ch(Digits \cup {"-"}), 9, 11), Close(1) >> >>) >>
  IN
  SetIfFound(
    ExtractAmounts(text, 1,
      SetIfFound(
        SetIfFound(<< >>, "employeeName",
                   Trimmed(FirstTruthyCapture(text, namePatterns, 1))),
        "employerName", Trimmed(FirstTruthyCapture(text, employerPatterns, 1)))),
    "employerEIN", OrNext(FirstCapture(text, einPattern), Undefined))

-----------------------------------------------------------------------------
(* performFallbackExtraction: the text extraction of the document
   processing route *)

\* /\b([A-Z][a-z]{2,15})\s+([A-Z][a-z]{2,15})\b/g
namePattern ==
  << WordBoundary, Open(1), Ch(Range(UpperCase)), Rep(Ch(Range(LowerCase)), 2, 15),
     Close(1), Plus(WS), Open(2), Ch(Range(UpperCase)),
     Rep(Ch(Range(LowerCase)), 2, 15), Close(2), WordBoundary >>

excludeWords ==
  { <<"E","m","p","l","o","y","e","e">>,
    <<"E","m","p","l","o","y","e","r">>,
    <<"F","e","d","e","r","a","l">>,
    <<"S","o","c","i","a","l">>,
    <<"S","e","c","u","r","i","t","y">>,
    <<"M","e","d","i","c","a","r","e">>,
    <<"C","o","n","t","r","o","l">>,
    <<"W","a","g","e","s">>,
    <<"I","n","c","o","m","e">>,
    <<"S","t","a","t","e">> }

\* \s*[^0-9]*([0-9,]+\.?[0-9]*)
ContextAmount ==
  << Star(WS), Star(NotCh(Digits)), Open(1), Plus(Ch(Digits \cup {","})),
     Maybe(Ch({"."})), Star(Ch(Digits)), Close(1) >>

\* lo <= amount && amount <= hi, for an amount without sign
AmountWithin(amount, lo, hi) ==
  /\ amount # NaN
  /\ amount.int >= lo
  /\ amount.int < hi \/ (amount.int = hi /\ amount.frac = << >>)

\* parseFloat(match[1].replace(/,/g, '')), kept as amount.toString() when
\* !isNaN(amount) && amount >= lo && amount <= hi
BoundedAmount(value, lo, hi) ==
  LET AmountText(amount) ==
        IF AmountWithin(amount, lo, hi) THEN Str(NumToString(amount)) ELSE Undefined
  IN  IF Truthy(value) THEN AmountText(parseFloat(StripCommas(value.s)))
      ELSE Undefined

RECURSIVE FirstProperName(_, _)
NameOrNext(text, m) ==
  IF ~m.ok THEN Undefined
  ELSE IF /\ Group(text, m, 1).s \notin excludeWords
          /\ Group(text, m, 2).s \notin excludeWords
    THEN Str(Group(text, m, 1).s \o <<" ">> \o Group(text, m, 2).s)
    ELSE FirstProperName(text, IF m.end = m.index THEN m.end + 1 ELSE m.end)

\* the first match of namePattern, in the order matchAll yields them, neither
\* of whose words is excluded
FirstProperName(text, start) == NameOrNext(text, SearchFrom(namePattern, text, start))

performFallbackExtraction(ocrText, documentType) ==
  LET
    \* /\b([A-Z][A-Za-z\s,.'&-]{5,40}(?:Company|Corp|...|Industries))\b/i
    companyPattern ==
      << WordBoundary, Open(1), Ch(Letters),
         Rep(Ch(Letters \cup WhiteSpace \cup {",", ".", "'", "&", "-"}), 5, 40),
         Alt(<< LitI(<<"C","o","m","p","a","n","y">>),
            LitI(<<"C","o","r","p">>),
            LitI(<<"C","o","r","p","o","r","a","t","i","o","n">>),
            LitI(<<"L","L","C">>),
            LitI(<<"I","n","c">>),
            LitI(<<"G","r","o","u","p">>),
            LitI(<<"A","s","s","o","c","i","a","t","e","s">>),
            LitI(<<"P","a","r","t","n","e","r","s">>),
            LitI(<<"E","n","t","e","r","p","r","i","s","e","s">>),
            LitI(<<"S","o","l","u","t","i","o","n","s">>),
            LitI(<<"S","e","r","v","i","c","e","s">>),
            LitI(<<"I","n","d","u","s","t","r","i","e","s">>) >>),
         Close(1), WordBoundary >>
    \* /Wages,?\s*tips,?\s*other\s*compensation\s*[^0-9]*([0-9,]+\.?[0-9]*)/i
    wagePattern ==
      LitI(<<"W","a","g","e","s">>) \o << Maybe(Ch({","})), Star(WS) >> \o LitI(<<"t","i","p","s">>)
      \o << Maybe(Ch({","})), Star(WS) >> \o LitI(<<"o","t","h","e","r">>) \o << Star(WS) >>
      \o LitI(<<"c","o","m","p","e","n","s","a","t","i","o","n">>) \o ContextAmount

    \* /Federal\s*income\s*tax\s*withheld\s*[^0-9]*([0-9,]+\.?[0-9]*)/i
    fedTaxPattern ==
      LitI(<<"F","e","d","e","r","a","l">>) \o << Star(WS) >> \o LitI(<<"i","n","c","o","m","e">>) \o << Star(WS) >>
      \o LitI(<<"t","a","x">>) \o << Star(WS) >> \o LitI(<<"w","i","t","h","h","e","l","d">>) \o ContextAmount

    \* /\b(\d{2}-\d{7})\b/
    einPattern ==
      << WordBoundary, Open(1), Rep(Ch(Digits), 2, 2), Ch({"-"}),
         Rep(Ch(Digits), 7, 7), Close(1), WordBoundary >>

    \* /\b(\d{3}-\d{2}-\d{4})\b/
    ssnPattern ==
      << WordBoundary, Open(1), Rep(Ch(Digits), 3, 3), Ch({"-"}), Rep(Ch(Digits), 2, 2),
         Ch({"-"}), Rep(Ch(Digits), 4, 4), Close(1), WordBoundary >>
  IN
  SetIfFound(
    SetIfFound(
      SetIfFound(
        SetIfFound(
          SetIfFound(
            SetIfFound(<< >>, "employeeName", FirstProperName(ocrText, 1)),
            "employerName",
            Trimmed(OrNext(FirstCapture(ocrText, companyPattern), Undefined))),
          "wages", BoundedAmount(FirstCapture(ocrText, wagePattern), 1000, 1000000)),
        "federalTaxWithheld",
        BoundedAmount(FirstCapture(ocrText, fedTaxPattern), 0, 100000)),
      "employerEIN", OrNext(FirstCapture(ocrText, einPattern), Undefined)),
    "employeeSSN", OrNext(FirstCapture(ocrText, ssnPattern), Undefined))

-----------------------------------------------------------------------------
(* The document-analysis backend and the two services that call it *)

\* Object.assign(target, source) and { ...target, ...source }
RECURSIVE AssignFrom(_, _, _)
AssignFrom(target, source, i) ==
  IF i > Len(source) THEN target
  ELSE AssignFrom(ObjSet(target, source[i].k, source[i].v), source, i + 1)

ObjAssign(target, source) == AssignFrom(target, source, 1)

\* averageConfidence || 0.85
DefaultConfidence == Num(FALSE, 0, <<8, 5>>)
\* SimpleAzureDocumentService.mapFieldName
mapFieldName(azureFieldName, documentType) ==
  CASE azureFieldName = "Employee" -> "employeeName"
    [] azureFieldName = "EmployeeName" -> "employeeName"
    [] azureFieldName = "Employee.Name" -> "employeeName"
    [] azureFieldName = "Employer" -> "employerName"
    [] azureFieldName = "EmployerName" -> "employerName"
    [] azureFieldName = "Employer.Name" -> "employerName"
    [] azureFieldName = "EmployerAddress" -> "employerAddress"
    [] azureFieldName = "EmployerAddress.StreetAddress" -> "employerAddress"
    [] azureFieldName = "SSN" -> "employeeSSN"
    [] azureFieldName = "EmployeeSSN" -> "employeeSSN"
    [] azureFieldName = "Employee.SSN" -> "employeeSSN"
    [] azureFieldName = "EIN" -> "employerEIN"
    [] azureFieldName = "EmployerEIN" -> "employerEIN"
    [] azureFieldName = "Employer.EIN" -> "employerEIN"
    [] azureFieldName = "W2FormYear" -> "taxYear"
    [] azureFieldName = "Wages" -> "wages"
    [] azureFieldName = "WagesTipsOtherCompensation" -> "wages"
    [] azureFieldName = "FederalIncomeTaxWithheld" -> "federalTaxWithheld"
    [] azureFieldName = "SocialSecurityWages" -> "socialSecurityWages"
    [] azureFieldName = "SocialSecurityTaxWithheld" -> "socialSecurityTaxWithheld"
    [] azureFieldName = "MedicareWagesAndTips" -> "medicareWages"
    [] azureFieldName = "MedicareTaxWithheld" -> "medicareTaxWithheld"
    [] azureFieldName = "Payer" -> "payerName"
    [] azureFieldName = "PayerName" -> "payerName"
    [] azureFieldName = "Recipient" -> "recipientName"
    [] azureFieldName = "RecipientName" -> "recipientName"
    [] azureFieldName = "PayerTIN" -> "payerTIN"
    [] azureFieldName = "RecipientTIN" -> "recipientTIN"
    [] azureFieldName = "NonemployeeCompensation" -> "nonemployeeCompensation"
    [] azureFieldName = "InterestIncome" -> "interestIncome"
    [] azureFieldName = "OrdinaryDividends" -> "ordinaryDividends"
    [] azureFieldName = "QualifiedDividends" -> "qualifiedDividends"
    \* azureFieldName.toLowerCase(), on the other field names in BackendPool
    [] azureFieldName = "Box12" -> "box12"
    [] OTHER -> azureFieldName

RECURSIVE SimpleFields(_, _, _, _)
\* Object.keys(document.fields).forEach: a field with a value is stored under
\* its mapped name (each field carries a valueString)
SimpleFields(fields, i, documentType, extractedData) ==
  IF i > Len(fields) THEN extractedData
  ELSE SimpleFields(fields, i + 1, documentType,
         IF Truthy(fields[i].v)
           THEN ObjSet(extractedData, mapFieldName(fields[i].k, documentType),
                       fields[i].v)
           ELSE extractedData)

\* SimpleAzureDocumentService.transformToTaxData; the mean of the fields'
\* confidences is part of the backend's result
SimpleAzure_transformToTaxData(result, documentType) ==
  [documentType |-> documentType,
   ocrText |-> result.content,
   extractedData |-> IF result.documents
                       THEN SimpleFields(result.fields, 1, documentType, << >>)
                       ELSE << >>,
   confidence |-> OrElse(IF result.documents THEN result.averageConfidence
                         ELSE Int0(0),
                         DefaultConfidence)]

\* SimpleAzureDocumentService.processDocument on a file it can read: a failed
\* call, poll or analysis ends in the catch block
SimpleAzure_processDocument(result, documentType) ==
  IF result.outcome = "succeeded"
    THEN SimpleAzure_transformToTaxData(result, documentType)
    ELSE [documentType |-> documentType,
          ocrText |-> <<"A","z","u","r","e"," ","p","r","o","c","e","s","s","i","n","g"," ","f","a","i","l","e","d","."," ","M","a","n","u","a","l"," ","r","e","v","i","e","w"," ","r","e","q","u","i","r","e","d",".">>,
          extractedData |-> << [k |-> "error", v |-> Str(<<"A","z","u","r","e"," ","A","P","I"," ","f","a","i","l","e","d">>)],
                               [k |-> "fallback", v |-> Bool(TRUE)] >>,
          confidence |-> Num(FALSE, 0, <<5>>)]

\* AzureDocumentService.getFieldValue
getFieldValue(fields, fieldName) ==
  IF ObjHas(fields, fieldName) THEN Str(OrElse(ObjGet(fields, fieldName), Str(<< >>)).s)
  ELSE Str(<< >>)

\* the properties AzureDocumentService.transformToTaxData assigns for a
\* document type, each with the backend field it reads
TypedFields(documentType) ==
  CASE documentType = "W2" ->
         << [k |-> "employerName", v |-> "EmployerName"],
            [k |-> "employerEIN", v |-> "EmployerIdNumber"],
            [k |-> "employeeName", v |-> "Employee.Name"],
            [k |-> "employeeSSN", v |-> "Employee.SocialSecurityNumber"],
            [k |-> "wages", v |-> "WagesTipsOtherCompensation"],
            [k |-> "federalTaxWithheld", v |-> "FederalIncomeTaxWithheld"],
            [k |-> "socialSecurityWages", v |-> "SocialSecurityWages"],
            [k |-> "socialSecurityTaxWithheld", v |-> "SocialSecurityTaxWithheld"],
            [k |-> "medicareWages", v |-> "MedicareWagesAndTips"],
            [k |-> "medicareTaxWithheld", v |-> "MedicareTaxWithheld"] >>
    [] documentType = "FORM_1099_INT" ->
         << [k |-> "payerName", v |-> "PayerName"],
            [k |-> "payerTIN", v |-> "PayerTaxIdNumber"],
            [k |-> "recipientName", v |-> "RecipientName"],
            [k |-> "recipientTIN", v |-> "RecipientTaxIdNumber"],
            [k |-> "interestIncome", v |-> "InterestIncome"],
            [k |-> "federalTaxWithheld", v |-> "FederalIncomeTaxWithheld"] >>
    [] documentType = "FORM_1099_NEC" ->
         << [k |-> "payerName", v |-> "PayerName"],
            [k |-> "payerTIN", v |-> "PayerTaxIdNumber"],
            [k |-> "recipientName", v |-> "RecipientName"],
            [k |-> "recipientTIN", v |-> "RecipientTaxIdNumber"],
            [k |-> "nonemployeeCompensation", v |-> "NonemployeeCompensation"],
            [k |-> "federalTaxWithheld", v |-> "FederalIncomeTaxWithheld"] >>
    [] OTHER -> << >>

\* AzureDocumentService.transformToTaxData
Azure_transformToTaxData(result, documentType) ==
  [documentType |-> documentType,
   ocrText |-> result.content,
   extractedData |->
     IF ~result.documents THEN << >>
     ELSE IF documentType \in {"W2", "FORM_1099_INT", "FORM_1099_NEC"}
       THEN [i \in 1..Len(TypedFields(documentType)) |->
               [k |-> TypedFields(documentType)[i].k,
                v |-> getFieldValue(result.fields, TypedFields(documentType)[i].v)]]
       ELSE [i \in 1..Len(result.fields) |->
               [k |-> result.fields[i].k,
                v |-> getFieldValue(result.fields, result.fields[i].k)]],
   confidence |-> OrElse(IF result.documents THEN result.averageConfidence
                         ELSE Int0(0),
                         DefaultConfidence)]

-----------------------------------------------------------------------------
(* The upload processing route: POST /api/data-upload/document/[id]/process *)

EndsWith(s, t) == Len(s) >= Len(t) /\ SubSeq(s, Len(s) - Len(t) + 1, Len(s)) = t

determineDocumentType(fileName) ==
  IF \/ Includes(toLowerCase(fileName), <<"w","2">>)
     \/ Includes(toLowerCase(fileName), <<"w","-","2">>)
    THEN "W2"
  ELSE IF Includes(toLowerCase(fileName), <<"1","0","9","9">>)
    THEN IF Includes(toLowerCase(fileName), <<"i","n","t">>) THEN "FORM_1099_INT"
         ELSE IF Includes(toLowerCase(fileName), <<"d","i","v">>) THEN "FORM_1099_DIV"
         ELSE IF Includes(toLowerCase(fileName), <<"n","e","c">>) THEN "FORM_1099_NEC"
         ELSE "FORM_1099_MISC"
  ELSE "UNKNOWN"

\* the backend names mapAzureDataToTaxData copies, each with its own name
fieldMapping ==
  << [k |-> "employeeName", v |-> "employeeName"],
     [k |-> "employerName", v |-> "employerName"],
     [k |-> "employerEIN", v |-> "employerEIN"],
     [k |-> "wages", v |-> "wages"],
     [k |-> "federalTaxWithheld", v |-> "federalTaxWithheld"],
     [k |-> "socialSecurityWages", v |-> "socialSecurityWages"],
     [k |-> "socialSecurityTaxWithheld", v |-> "socialSecurityTaxWithheld"],
     [k |-> "medicareWages", v |-> "medicareWages"],
     [k |-> "medicareTaxWithheld", v |-> "medicareTaxWithheld"],
     [k |-> "payerName", v |-> "payerName"],
     [k |-> "payerTIN", v |-> "payerTIN"],
     [k |-> "interestIncome", v |-> "interestIncome"],
     [k |-> "ordinaryDividends", v |-> "dividendIncome"],
     [k |-> "nonemployeeCompensation", v |-> "nonemployeeCompensation"] >>

RECURSIVE MapFields(_, _, _)
MapFields(azureData, i, mapped) ==
  IF i > Len(fieldMapping) THEN mapped
  ELSE MapFields(azureData, i + 1,
         IF Truthy(Prop(azureData, fieldMapping[i].k))
           THEN ObjSet(mapped, fieldMapping[i].v, Prop(azureData, fieldMapping[i].k))
           ELSE mapped)

mapAzureDataToTaxData(azureData) == MapFields(azureData, 1, << >>)

\* if (Object.keys(mappedData).length < 3 && result.ocrText)
\*   Object.assign(mappedData, extractDataFromText(result.ocrText))
EnhanceMapped(mappedData, ocrText) ==
  IF Len(mappedData) < 3 /\ ocrText # << >>
    THEN ObjAssign(mappedData, extractDataFromText(ocrText))
    ELSE mappedData

processDocumentFallback(document) ==
  IF EndsWith(toLowerCase(document.fileName), <<".","t","x","t">>)
    THEN [ocrText |-> document.fileText,
          extractedData |-> extractDataFromText(document.fileText)]
    ELSE [ocrText |-> <<"D","o","c","u","m","e","n","t"," ","u","p","l","o","a","d","e","d",":"," ">> \o document.fileName \o <<" ", "(">>
                      \o IntToChars(document.size)
                      \o <<" ","b","y","t","e","s",")","."," ","M","a","n","u","a","l"," ","r","e","v","i","e","w"," ","r","e","q","u","i","r","e","d",".">>,
          extractedData |->
            << [k |-> "fileName", v |-> Str(document.fileName)],
               [k |-> "fileSize", v |-> Str(IntToChars(document.size))],
               [k |-> "processingNote",
                v |-> Str(<<"M","a","n","u","a","l"," ","r","e","v","i","e","w"," ","r","e","q","u","i","r","e","d"," ","-"," ","a","u","t","o","m","a","t","e","d"," ","e","x","t","r","a","c","t","i","o","n"," ","n","o","t"," ","a","v","a","i","l","a","b","l","e">>)] >>]

\* processDocumentWithAzure on a file that was just read; the service call
\* then does not throw
processDocumentWithAzure(document, backend) ==
  LET MappedResult(result) ==
        [ocrText |-> result.ocrText,
         extractedData |->
           EnhanceMapped(mapAzureDataToTaxData(result.extractedData),
                         result.ocrText)]
  IN  IF ~backend.configured THEN processDocumentFallback(document)
      ELSE MappedResult(SimpleAzure_processDocument(
                          backend, determineDocumentType(document.fileName)))

\* the basic entry carries the whole text
StructureWholeText(data) ==
  IF Len(data.extractedData) > 0
    THEN << data.extractedData >>
    ELSE << << [k |-> "sourceType", v |-> Str(<<"O","C","R">>)],
               [k |-> "ocrText", v |-> Str(data.ocrText)] >> >>

\* structureTaxData; the extractedAt time stamp is left out
structureTaxData(data) ==
  IF Len(data.extractedData) > 0
    THEN << ObjSet(ObjSet(data.extractedData,
                          "sourceType", Str(<<"A","Z","U","R","E","_","E","X","T","R","A","C","T","E","D">>)),
                   "confidence", Str(<<"h","i","g","h">>)) >>
    ELSE << << [k |-> "sourceType", v |-> Str(<<"O","C","R","_","T","E","X","T","_","O","N","L","Y">>)],
               [k |-> "ocrText", v |-> Str(Truncated(data.ocrText, 1000))],
               [k |-> "note", v |-> Str(<<"M","a","n","u","a","l"," ","r","e","v","i","e","w"," ","r","e","q","u","i","r","e","d">>)] >> >>

Progress(message) == [status |-> "processing", message |-> message]

\* the stream and the row update of a run that got through
Completed(extractedData, structuredData) ==
  LET events ==
        << Progress("Starting document analysis with Azure..."),
           Progress("File loaded, processing with Azure Document Intelligence..."),
           Progress("Azure processing complete, structuring data..."),
           [status |-> "completed",
            message |-> "Document processed successfully with Azure",
            preview |-> Truncated(structuredData, 5),
            totalRows |-> Len(structuredData),
            extractedFields |-> ObjKeys(structuredData[1]),
            ocrText |-> Truncated(extractedData.ocrText, 500) \o <<".", ".", ".">>,
            processingMethod |-> "azure_document_intelligence"],
           [data |-> "[DONE]"] >>
  IN
  [response |-> [status |-> 200, contentType |-> "text/event-stream"],
   events |-> events,
   log |-> << [op |-> "enqueue", event |-> events[1]],
              [op |-> "enqueue", event |-> events[2]],
              [op |-> "enqueue", event |-> events[3]],
              [op |-> "update", status |-> "COMPLETED", saved |-> TRUE],
              [op |-> "enqueue", event |-> events[4]],
              [op |-> "enqueue", event |-> events[5]],
              [op |-> "close"] >>,
   row |-> [status |-> "COMPLETED", totalRows |-> Len(structuredData),
            processedRows |-> Len(structuredData),
            previewData |-> Truncated(structuredData, 5), errorRows |-> 0],
   extracted |-> extractedData]

\* the catch and finally blocks after the events sent so far: the update to
\* FAILED is tried, the error event enqueued and the stream closed
Caught(sent, message, failedSaved, row) ==
  LET error == [status |-> "error", message |-> message]
  IN
  [response |-> [status |-> 200, contentType |-> "text/event-stream"],
   events |-> sent \o << error >>,
   log |-> [i \in 1..Len(sent) |-> [op |-> "enqueue", event |-> sent[i]]]
           \o << [op |-> "update", status |-> "FAILED", saved |-> failedSaved],
                 [op |-> "enqueue", event |-> error],
                 [op |-> "close"] >>,
   row |-> IF failedSaved THEN [status |-> "FAILED", errorLog |-> message]
           ELSE row,
   extracted |-> NoResult]

JsonError(status, error, row) ==
  [response |-> [status |-> status, error |-> error], events |-> << >>,
   log |-> << >>, row |-> row, extracted |-> NoResult]

\* the route goes on to the analysis without having read the file
ProcessUploadUnread(authorized, userFound, uploadFound, completedSaved, failedSaved, document, backend, row) ==
  IF ~authorized THEN JsonError(401, "Unauthorized", row)
  ELSE IF ~userFound THEN JsonError(404, "User not found", row)
  ELSE IF ~uploadFound THEN JsonError(404, "Document not found", row)
  ELSE Completed(processDocumentWithAzure(document, backend),
                 structureTaxData(processDocumentWithAzure(document, backend)))

\* the completion is announced before the row is updated
ProcessUploadAnnounced(authorized, userFound, uploadFound, completedSaved, failedSaved, document, backend, row) ==
  IF ~authorized THEN JsonError(401, "Unauthorized", row)
  ELSE IF ~userFound THEN JsonError(404, "User not found", row)
  ELSE IF ~uploadFound THEN JsonError(404, "Document not found", row)
  ELSE IF ~document.readable THEN
    Caught(<< Progress("Starting document analysis with Azure...") >>,
           "ENOENT", failedSaved, row)
  ELSE
    LET done == Completed(processDocumentWithAzure(document, backend),
                          structureTaxData(processDocumentWithAzure(document, backend)))
    IN  IF completedSaved THEN done
        ELSE Caught(SubSeq(done.events, 1, 4), "update failed", failedSaved, row)

\* POST of the upload processing route
ProcessUpload(authorized, userFound, uploadFound, completedSaved, failedSaved, document, backend, row) ==
  LET Structured(extractedData) ==
        LET done == Completed(extractedData, structureTaxData(extractedData))
        IN  IF completedSaved THEN done
            ELSE Caught(SubSeq(done.events, 1, 3), "update failed",
                        failedSaved, row)
  IN
  IF ~authorized THEN JsonError(401, "Unauthorized", row)
  ELSE IF ~userFound THEN JsonError(404, "User not found", row)
  ELSE IF ~uploadFound THEN JsonError(404, "Document not found", row)
  ELSE IF ~document.readable THEN
    Caught(<< Progress("Starting document analysis with Azure...") >>,
           "ENOENT", failedSaved, row)
  ELSE Structured(processDocumentWithAzure(document, backend))

-----------------------------------------------------------------------------
(* The document processing route: POST /api/documents/[id]/process *)

\* the merge of the backend's fields with the fallback extraction
EnhanceExtracted(result, documentType) ==
  IF Len(result.extractedData) < 3 /\ result.ocrText # << >>
    THEN ObjAssign(result.extractedData,
                   performFallbackExtraction(result.ocrText, documentType))
    ELSE result.extractedData

\* processWithAzureDocumentIntelligence: it throws when the file is missing
\* or the service call fails
processWithAzureDocumentIntelligence(document, backend) ==
  LET ExtractedTaxData(result) ==
        [threw |-> FALSE,
         documentType |-> document.documentType,
         ocrText |-> result.ocrText,
         extractedData |-> EnhanceExtracted(result, document.documentType),
         confidence |-> result.confidence,
         processingMethod |-> "azure_document_intelligence"]
  IN  IF ~document.readable \/ backend.outcome # "succeeded" THEN [threw |-> TRUE]
      ELSE ExtractedTaxData(
             Azure_transformToTaxData(backend, document.documentType))

Saved(extractedTaxData) ==
  IF extractedTaxData.threw
    THEN [response |-> [status |-> 500, error |-> "Document processing failed"],
          row |-> [processingStatus |-> "FAILED"],
          extracted |-> NoResult]
    ELSE [response |-> [status |-> 200, success |-> TRUE,
                        processingMethod |-> extractedTaxData.processingMethod,
                        documentType |-> extractedTaxData.documentType,
                        confidence |-> extractedTaxData.confidence,
                        extractedData |-> extractedTaxData.extractedData,
                        ocrTextPreview |-> Truncated(extractedTaxData.ocrText, 500)
                                           \o <<".", ".", ".">>],
          row |-> [processingStatus |-> "COMPLETED",
                   ocrText |-> extractedTaxData.ocrText,
                   extractedData |->
                     [documentType |-> extractedTaxData.documentType,
                      ocrText |-> extractedTaxData.ocrText,
                      extractedData |-> extractedTaxData.extractedData,
                      confidence |-> extractedTaxData.confidence,
                      processingMethod |-> extractedTaxData.processingMethod]],
          extracted |-> extractedTaxData]

Refused(status, error, row) ==
  [response |-> [status |-> status, error |-> error], row |-> row,
   extracted |-> NoResult]

\* POST of the document processing route
ProcessDocument(authorized, userFound, documentFound, document, backend, row) ==
  IF ~authorized THEN Refused(401, "Unauthorized", row)
  ELSE IF ~userFound THEN Refused(404, "User not found", row)
  ELSE IF ~documentFound THEN Refused(404, "Document not found", row)
  ELSE IF ~backend.configured THEN
    Refused(500, "Azure Document Intelligence service not configured", row)
  ELSE Saved(processWithAzureDocumentIntelligence(document, backend))

-----------------------------------------------------------------------------
(* One stored document, one answer of the backend, one request *)

WageStatementText ==
  <<"W","a","g","e","s",","," ","t","i","p","s",","," ","o","t","h","e","r"," ","c","o","m","p","e","n","s","a","t","i","o","n"," ","4","5",",","2","0","0",".","0","0","\n","F","e","d","e","r","a","l"," ","i","n","c","o","m","e"," ","t","a","x"," ","w","i","t","h","h","e","l","d"," ","5",",","1","0","0",".","0","0">>

BackendPool ==
  LET
    OcrTextPool ==
      { << >>,
        WageStatementText,
        <<"W","a","g","e","s",":"," ","9","9","9">>,
        <<"W","a","g","e","s",":"," ","$","4","5",",","2","0","0",".","0","0">>,
        <<"W","a","g","e","s"," ","t","i","p","s"," ","o","t","h","e","r"," ","c","o","m","p","e","n","s","a","t","i","o","n"," ","2",",","0","0","0",",","0","0","0",".","0","0">>,
        <<"W","a","g","e","s",","," ","t","i","p","s",","," ","o","t","h","e","r"," ","c","o","m","p","e","n","s","a","t","i","o","n"," ","9","9","9",".","0","0">>,
        <<"E","m","p","l","o","y","e","e"," ","n","a","m","e",":"," ","J","a","n","e"," ","D","o","e","\n","E","m","p","l","o","y","e","r"," ","n","a","m","e",":"," ","A","c","m","e"," ","T","o","o","l","s"," ","I","n","c","\n","E","I","N"," ","1","2","-","3","4","5","6","7","8","9">>,
        \* a text longer than the excerpt structureTaxData keeps
        [i \in 1..1001 |-> "x"] }
    \* what the analysis found: no document at all, a document without fields,
    \* one field, three fields, an unknown field next to an empty one
    BackendFieldsPool ==
      { [documents |-> FALSE, fields |-> << >>, averageConfidence |-> Int0(0)],
        [documents |-> TRUE, fields |-> << >>, averageConfidence |-> Int0(0)],
        [documents |-> TRUE,
         fields |-> << [k |-> "WagesTipsOtherCompensation", v |-> Str(<<"5","0","0","0","0",".","0","0">>)] >>,
         averageConfidence |-> Num(FALSE, 0, <<9>>)],
        [documents |-> TRUE,
         fields |-> << [k |-> "Employee.Name", v |-> Str(<<"J","a","n","e"," ","D","o","e">>)],
                       [k |-> "WagesTipsOtherCompensation", v |-> Str(<<"5","0","0","0","0",".","0","0">>)],
                       [k |-> "FederalIncomeTaxWithheld", v |-> Str(<<"6","0","0","0",".","0","0">>)] >>,
         averageConfidence |-> Num(FALSE, 0, <<9>>)],
        [documents |-> TRUE,
         fields |-> << [k |-> "Box12", v |-> Str(<<"D">>)],
                       [k |-> "EmployerName", v |-> Str(<< >>)] >>,
         averageConfidence |-> Num(FALSE, 0, <<9>>)] }
  IN
  { [configured |-> FALSE, outcome |-> "none", documents |-> FALSE,
     fields |-> << >>, averageConfidence |-> Int0(0), content |-> << >>],
    [configured |-> TRUE, outcome |-> "failed", documents |-> FALSE,
     fields |-> << >>, averageConfidence |-> Int0(0), content |-> << >>] }
  \cup
  { [configured |-> TRUE, outcome |-> "succeeded", documents |-> f.documents,
     fields |-> f.fields, averageConfidence |-> f.averageConfidence,
     content |-> text] : f \in BackendFieldsPool, text \in OcrTextPool }

DocumentPool ==
  { [fileName |-> <<"w","2",".","p","d","f">>, documentType |-> "W2", readable |-> r,
     fileText |-> << >>, size |-> 2048] : r \in BOOLEAN }
  \cup
  { [fileName |-> <<"n","o","t","e","s",".","t","x","t">>, documentType |-> "UNKNOWN", readable |-> TRUE,
     fileText |-> text, size |-> Len(text)]
      : text \in { WageStatementText, <<"W","a","g","e","s",":"," ","9","9","9">>,
                   <<"W","a","g","e","s",":"," ","$","4","5",",","2","0","0",".","0","0">> } }

InitOcr ==
  /\ ocrDocument \in DocumentPool
  /\ backendResult \in BackendPool
  /\ uploadRow = [status |-> "PENDING"]
  /\ documentRow = [processingStatus |-> "PENDING"]
  /\ sseEvents = << >>
  /\ sseLog = << >>
  /\ rowUpdates = [completedSaved |-> TRUE, failedSaved |-> TRUE]
  /\ ocrExtracted = NoResult
  /\ ocrResponse = NoResult
  /\ IdleUI /\ IdleRoundTrip /\ IdlePipeline /\ IdleParse
  /\ IdleUpload /\ IdlePoll

\* one request to the upload processing route
ProcessUploadPOST ==
  LET UploadAnswered(r) ==
        /\ ocrResponse' = r.response
        /\ sseEvents' = r.events
        /\ sseLog' = r.log
        /\ uploadRow' = r.row
        /\ ocrExtracted' = r.extracted
  IN
  /\ ocrResponse = NoResult
  /\ \E authorized \in BOOLEAN, userFound \in BOOLEAN, uploadFound \in BOOLEAN :
       UploadAnswered(ProcessUpload(authorized, userFound, uploadFound,
                                    rowUpdates.completedSaved,
                                    rowUpdates.failedSaved,
                                    ocrDocument, backendResult, uploadRow))
  /\ UNCHANGED << ocrDocument, backendResult, documentRow, rowUpdates,
                  uiVars, rtVars, plVars, parseVars,
                  upVars, pollVars >>

\* one request to the document processing route
ProcessDocumentPOST ==
  LET DocumentAnswered(r) ==
        /\ ocrResponse' = r.response
        /\ documentRow' = r.row
        /\ ocrExtracted' = r.extracted
  IN
  /\ ocrResponse = NoResult
  /\ \E authorized \in BOOLEAN, userFound \in BOOLEAN, documentFound \in BOOLEAN :
       DocumentAnswered(ProcessDocument(authorized, userFound, documentFound,
                                        ocrDocument, backendResult, documentRow))
  /\ UNCHANGED << ocrDocument, backendResult, uploadRow, sseEvents, sseLog,
                  rowUpdates,
                  uiVars, rtVars, plVars, parseVars,
                  upVars, pollVars >>

NextOcr == ProcessUploadPOST \/ ProcessDocumentPOST

-----------------------------------------------------------------------------
(* The upload processing route with a database that may refuse an update *)

\* a stored document, an answer of the backend, and for each of the two row
\* updates whether prisma.dataUpload.update saves it or throws
InitStream ==
  /\ ocrDocument \in DocumentPool
  /\ backendResult \in BackendPool
  /\ uploadRow = [status |-> "PENDING"]
  /\ documentRow = [processingStatus |-> "PENDING"]
  /\ sseEvents = << >>
  /\ sseLog = << >>
  /\ rowUpdates \in [completedSaved : BOOLEAN, failedSaved : BOOLEAN]
  /\ ocrExtracted = NoResult
  /\ ocrResponse = NoResult
  /\ IdleUI /\ IdleRoundTrip /\ IdlePipeline /\ IdleParse
  /\ IdleUpload /\ IdlePoll

-----------------------------------------------------------------------------
(* POST /api/data-upload and POST /api/data-upload/document *)

\* 10 * 1024 * 1024
TenMB == 10485760

\* A request: the session and the user row it resolves to, and the file of the
\* form data (NoResult: no file).  A file has its name, its extension, its
\* MIME type, its size in bytes and, as content, what the parsers read.
InitUpload ==
  LET Header == << Chars("name"), Chars("amount") >>
      FileKinds ==
        { [name |-> "data.csv", ext |-> <<"c","s","v">>, type |-> "text/csv",
           content |-> [fileType |-> "csv",
                        lines |-> << Header, << <<"a">>, <<"1">> >> >>]],
          [name |-> "broken.json", ext |-> <<"j","s","o","n">>, type |-> "application/json",
           content |-> [fileType |-> "json", shape |-> "invalid",
                        elements |-> << >>]],
          [name |-> "w2.pdf", ext |-> <<"p","d","f">>, type |-> "application/pdf",
           content |-> [fileType |-> "pdf"]],
          [name |-> "notes.txt", ext |-> <<"t","x","t">>, type |-> "text/plain",
           content |-> [fileType |-> "txt"]],
          [name |-> "scan.gif", ext |-> <<"g","i","f">>, type |-> "image/gif",
           content |-> [fileType |-> "gif"]] }
      Files == { [name |-> k.name, ext |-> k.ext, type |-> k.type,
                  content |-> k.content, size |-> s]
                   : k \in FileKinds, s \in {2048, TenMB, TenMB + 1} }
  IN
  /\ \E session \in BOOLEAN, userFound \in BOOLEAN,
        file \in Files \cup {NoResult} :
       upRequest = [session |-> session, userFound |-> userFound,
                    file |-> file, taxReturnId |-> "tr1"]
  /\ upRoute = "" /\ upParsed = FALSE
  /\ upDir = << >> /\ upTable = << >>
  /\ upResponse = NoResult
  /\ IdleUI /\ IdleRoundTrip /\ IdlePipeline /\ IdleParse /\ IdleOcr /\ IdlePoll

\* POST /api/data-upload: the structured-file upload.  stored: mkdir,
\* writeFile and dataUpload.create succeed (a throw is answered with 500)
DataUploadPOST ==
  LET file == upRequest.file
      Answer(resp) ==
        /\ upResponse' = resp
        /\ UNCHANGED << upParsed, upDir, upTable >>
      \* file.name.split('.').pop()?.toUpperCase()
      UpperExt(ext) ==
        [i \in 1..Len(ext) |->
           LET at == { j \in 1..Len(LowerCase) : LowerCase[j] = ext[i] }
           IN  IF at = {} THEN ext[i] ELSE UpperCase[CHOOSE j \in at : TRUE]]
      Store(parsed, stored) ==
        /\ upParsed' = TRUE
        /\ IF ~parsed.success THEN
             /\ upResponse' = [status |-> 400, error |-> parsed.error]
             /\ UNCHANGED << upDir, upTable >>
           ELSE IF ~stored THEN
             /\ upResponse' = [status |-> 500, error |-> "Internal server error"]
             /\ UNCHANGED << upDir, upTable >>
           ELSE
             /\ upDir' = Append(upDir, <<"uploads", file.name>>)
             /\ upTable' = Append(upTable,
                  [taxReturnId |-> upRequest.taxReturnId,
                   fileName |-> file.name, fileType |-> UpperExt(file.ext),
                   fileSize |-> file.size,
                   totalRows |-> parsed.totalRows,
                   previewData |-> parsed.preview,
                   status |-> "COMPLETED"])
             /\ upResponse' = [status |-> 200, success |-> TRUE,
                               preview |-> parsed.preview,
                               headers |-> parsed.headers,
                               totalRows |-> parsed.totalRows]
  IN
  /\ upResponse = NoResult
  /\ upRoute' = "data-upload"
  /\ IF ~upRequest.session THEN
       Answer([status |-> 401, error |-> "Unauthorized"])
     ELSE IF ~upRequest.userFound THEN
       Answer([status |-> 404, error |-> "User not found"])
     ELSE IF file = NoResult THEN
       Answer([status |-> 400, error |-> "No file uploaded"])
     ELSE \E stored \in BOOLEAN : Store(parseUploadedFile(file.content), stored)
  /\ UNCHANGED << upRequest, uiVars, rtVars, plVars, parseVars, ocrVars, pollVars >>

\* POST /api/data-upload/document: the document upload
DocumentUploadPOST ==
  LET file == upRequest.file
      allowedTypes == {"application/pdf", "image/png", "image/jpeg",
                       "image/tiff", "image/bmp", "text/plain"}
      Answer(resp) ==
        /\ upResponse' = resp
        /\ UNCHANGED << upDir, upTable >>
      \* file.name.split('.').pop()?.toUpperCase()
      UpperExt(ext) ==
        [i \in 1..Len(ext) |->
           LET at == { j \in 1..Len(LowerCase) : LowerCase[j] = ext[i] }
           IN  IF at = {} THEN ext[i] ELSE UpperCase[CHOOSE j \in at : TRUE]]
      Store(stored) ==
        IF ~stored THEN
          Answer([status |-> 500, error |-> "Internal server error"])
        ELSE
          /\ upDir' = Append(upDir, <<"uploads", "documents", file.name>>)
          /\ upTable' = Append(upTable,
               [taxReturnId |-> upRequest.taxReturnId,
                fileName |-> file.name, fileType |-> UpperExt(file.ext),
                fileSize |-> file.size, totalRows |-> 0,
                previewData |-> << >>, status |-> "PROCESSING"])
          /\ upResponse' = [status |-> 200, success |-> TRUE,
                            needsProcessing |-> TRUE]
  IN
  /\ upResponse = NoResult
  /\ upRoute' = "data-upload/document"
  /\ IF ~upRequest.session THEN
       Answer([status |-> 401, error |-> "Unauthorized"])
     ELSE IF ~upRequest.userFound THEN
       Answer([status |-> 404, error |-> "User not found"])
     ELSE IF file = NoResult THEN
       Answer([status |-> 400, error |-> "No file uploaded"])
     ELSE IF file.type \notin allowedTypes THEN
       Answer([status |-> 400, error |-> "Invalid file type"])
     ELSE IF file.size > TenMB THEN
       Answer([status |-> 400, error |-> "File size exceeds 10MB limit"])
     ELSE \E stored \in BOOLEAN : Store(stored)
  /\ UNCHANGED << upRequest, upParsed, uiVars, rtVars, plVars, parseVars,
                  ocrVars, pollVars >>

NextUpload == DataUploadPOST \/ DocumentUploadPOST

-----------------------------------------------------------------------------
(* SimpleAzureService.pollForResults *)

maxAttempts == 30
\* milliseconds
pollInterval == 2000

\* the call has entered the loop and awaits its first fetch
InitPoll ==
  /\ pollAttempt = 0
  /\ pollPhase = "fetching"
  /\ pollStatus = ""
  /\ pollResult = NoResult
  /\ pollFetches = 1
  /\ pollWaited = 0
  /\ IdleUI /\ IdleRoundTrip /\ IdlePipeline /\ IdleParse /\ IdleOcr
  /\ IdleUpload

\* The awaited fetch settles and the rest of the loop body runs up to the
\* setTimeout.  The fetch rejects, or answers with a status that is not OK, or
\* with a body that is not JSON, or with a JSON body whose status is one of
\* those the analysis service reports.
PollResponse ==
  LET Throw(message) ==
        /\ pollPhase' = "thrown"
        /\ pollResult' = [error |-> message]
  IN
  /\ pollPhase = "fetching"
  /\ \E answer \in {"rejected", "notOk", "notJson", "succeeded", "failed",
                     "running", "notStarted"} :
       /\ pollStatus' = answer
       /\ CASE answer = "rejected" -> Throw("fetch failed")
            [] answer = "notOk" -> Throw("Polling error")
            [] answer = "notJson" -> Throw("Unexpected token")
            [] answer = "succeeded" ->
                 /\ pollPhase' = "returned"
                 /\ pollResult' = [analyzeResult |-> "analyzeResult"]
            [] answer = "failed" -> Throw("Azure analysis failed")
            [] OTHER ->
                 /\ pollPhase' = "waiting"
                 /\ UNCHANGED pollResult
  /\ UNCHANGED << pollAttempt, pollFetches, pollWaited,
                  uiVars, rtVars, plVars, parseVars, ocrVars, upVars >>

\* the timer fires and the call fetches again, whatever the count
PollWaitUnbounded ==
  /\ pollPhase = "waiting"
  /\ pollPhase' = "fetching"
  /\ UNCHANGED << pollAttempt, pollStatus, pollResult, pollFetches, pollWaited,
                  uiVars, rtVars, plVars, parseVars, ocrVars, upVars >>

\* The timer of setTimeout(resolve, pollInterval) fires: attempt++, then the
\* loop test, then the next fetch or the throw after the loop.
PollWait ==
  /\ pollPhase = "waiting"
  /\ pollWaited' = pollWaited + pollInterval
  /\ pollAttempt' = pollAttempt + 1
  /\ IF pollAttempt + 1 < maxAttempts
       THEN /\ pollPhase' = "fetching"
            /\ pollFetches' = pollFetches + 1
            /\ UNCHANGED pollResult
       ELSE /\ pollPhase' = "thrown"
            /\ pollResult' = [error |-> "Azure analysis timed out after 60 seconds"]
            /\ UNCHANGED pollFetches
  /\ UNCHANGED << pollStatus, uiVars, rtVars, plVars, parseVars, ocrVars, upVars >>

NextPoll == PollResponse \/ PollWait

-----------------------------------------------------------------------------
(* Specifications *)

\* the field-mapping session
Init ==
  /\ InitUI /\ IdleRoundTrip /\ IdlePipeline /\ IdleParse /\ IdleOcr
  /\ IdleUpload /\ IdlePoll

Next ==
  \/ HandleFormTypeChange
       /\ UNCHANGED << rtVars, plVars, parseVars, ocrVars, upVars, pollVars >>
  \/ UpdateFieldMapping
       /\ UNCHANGED << rtVars, plVars, parseVars, ocrVars, upVars, pollVars >>
  \/ RemoveFieldMapping
       /\ UNCHANGED << rtVars, plVars, parseVars, ocrVars, upVars, pollVars >>
  \/ AutoSuggestMappings
       /\ UNCHANGED << rtVars, plVars, parseVars, ocrVars, upVars, pollVars >>
  \/ SaveMapping
       /\ UNCHANGED << rtVars, plVars, parseVars, ocrVars, upVars, pollVars >>

Spec == Init /\ [][Next]_vars

\* validation, conversion and the process endpoint on one stored mapping
SpecPipeline == InitPipeline /\ [][NextPipeline]_vars

\* repeated requests of two users to the process endpoint
SpecProcess == InitProcess /\ [][ProcessMappingPOST]_vars

\* the upload processing route, its row updates saved or refused
SpecStream == InitStream /\ [][ProcessUploadPOST]_vars

\* the conversion on validated rows
SpecConvert == InitConvert /\ [][NextConvert]_vars

\* the format parsers on one file
SpecParse == InitParse /\ [][NextParse]_vars

\* the two document routes on one stored document
SpecOcr == InitOcr /\ [][NextOcr]_vars

\* one request to one of the two upload endpoints
SpecUpload == InitUpload /\ [][NextUpload]_vars

\* one call of pollForResults
SpecPoll == InitPoll /\ [][NextPoll]_vars

\* every fetch settles (the runtime ends a request that gets no answer) and
\* every timer fires
SpecPollFair == SpecPoll /\ WF_vars(PollResponse) /\ WF_vars(PollWait)

(* set(source, target) then unset(source), applied to any mapping *)

RoundTripColumns == <<"EmpName", "EmpWages", "FedWH">>

InitRoundTrip ==
  LET
    \* every mapping over the columns: distinct keys, any order, any targets
    MappingPool ==
      LET entries == [k : Range(RoundTripColumns), v : TargetChoices]
          seqs == UNION { [1..m -> entries] : m \in 0..Len(RoundTripColumns) }
      IN  { o \in seqs : \A i, j \in 1..Len(o) : o[i].k = o[j].k => i = j }
  IN
  /\ selectedFormType = "W2"
  /\ formTemplate = "W2"
  /\ sourceFields = RoundTripColumns
  /\ fieldMappings \in MappingPool
  /\ savedMappings = << >>
  /\ nOps = 0
  /\ rtPrior = fieldMappings
  /\ rtSource \in Range(RoundTripColumns)
  /\ rtStep = "start"
  /\ IdlePipeline /\ IdleParse /\ IdleOcr
  /\ IdleUpload /\ IdlePoll

RoundTripSet ==
  /\ rtStep = "start"
  /\ \E targetField \in TargetChoices :
       fieldMappings' = updateFieldMapping(fieldMappings, targetField, rtSource)
  /\ rtStep' = "set"
  /\ UNCHANGED << selectedFormType, formTemplate, sourceFields, savedMappings,
                  nOps, rtPrior, rtSource, plVars, parseVars, ocrVars,
                  upVars, pollVars >>

RoundTripUnset ==
  /\ rtStep = "set"
  /\ fieldMappings' = removeFieldMapping(fieldMappings, rtSource)
  /\ rtStep' = "unset"
  /\ UNCHANGED << selectedFormType, formTemplate, sourceFields, savedMappings,
                  nOps, rtPrior, rtSource, plVars, parseVars, ocrVars,
                  upVars, pollVars >>

NextRoundTrip == RoundTripSet \/ RoundTripUnset

SpecRoundTrip == InitRoundTrip /\ [][NextRoundTrip]_vars

-----------------------------------------------------------------------------
(* Properties *)

\* the targets of a mapping are pairwise distinct
TargetsDistinct(m) ==
  \A i, j \in 1..Len(m) : m[i].v = m[j].v => i = j

\* the entry of a key as a sequence of zero or one targets
Lookup(o, key) == IF ObjHas(o, key) THEN << ObjGet(o, key) >> ELSE << >>

\* C1: in the session's mapping and in every mapping the data-mapping POST
\* endpoint stored, no two distinct source columns map to the same target.
C1_NoSharedTarget ==
  /\ TargetsDistinct(fieldMappings)
  /\ \A i \in 1..Len(savedMappings) : TargetsDistinct(savedMappings[i].fieldMappings)

\* C10 as stated: after set then unset the source column's entry is what it
\* was before the set, whether or not the column was mapped before.
C10_RoundTripRestoresAlways ==
  rtStep = "unset" => Lookup(fieldMappings, rtSource) = Lookup(rtPrior, rtSource)

\* C10 amended: after set then unset the source column is unmapped and every
\* other column keeps its entry; the whole mapping equals the prior mapping
\* exactly when the column was unmapped before the set.
C10_RoundTripRestoresUnmapped ==
  rtStep = "unset" =>
    /\ ~ObjHas(fieldMappings, rtSource)
    /\ \A c \in Range(RoundTripColumns) \ {rtSource} :
         Lookup(fieldMappings, c) = Lookup(rtPrior, c)
    /\ (fieldMappings = rtPrior) <=> ~ObjHas(rtPrior, rtSource)

C10_Witness ==
  /\ rtStep = "unset"
  /\ ~ObjHas(rtPrior, rtSource)
  /\ Len(rtPrior) = 2
  /\ fieldMappings = rtPrior

\* the rows, schema and mapping validateFormData was applied to
InputRows == LoadUploadFile(upload)
InputTemplate == FORM_TEMPLATES(dataMapping.formType)
InputMapping == dataMapping.fieldMappings

\* the errors reported for one 1-based row number (and one field)
ErrorsOfRow(errors, row) == { j \in 1..Len(errors) : errors[j].row = row }
ErrorsOfField(errors, row, field) ==
  { j \in ErrorsOfRow(errors, row) : errors[j].field = field }

\* entry e of the mapping has a required target and row i has no value for it
MissingRequired(i, e) ==
  LET f == FindField(InputTemplate, InputMapping[e].v)
  IN  /\ f # 0
      /\ InputTemplate[f].required
      /\ IsMissing(Prop(InputRows[i], InputMapping[e].k))

\* C2: a row with a missing value for a required mapped field gets exactly
\* one error naming that field and the row's 1-based position, and only the
\* rows without errors are in the validated output.
C2_MissingRequiredOneError ==
  plStage \in {"validated", "converted"} =>
    /\ \A i \in 1..Len(InputRows), e \in 1..Len(InputMapping) :
         MissingRequired(i, e) =>
           Cardinality(ErrorsOfField(validationResult.errors, i, InputMapping[e].v)) = 1
    /\ Len(validationResult.data) =
         Cardinality({ i \in 1..Len(InputRows) :
                         ErrorsOfRow(validationResult.errors, i) = {} })

\* the rows of the upload that validate on their own
PassingRows ==
  { i \in 1..Len(InputRows) :
      validateFormData(<< InputRows[i] >>, InputTemplate, InputMapping).success }

\* C4: when the process endpoint has run on a batch in which some rows pass
\* and some fail, the passing rows are persisted as income entries and the
\* response itemizes the errors of the failing rows.
C4_PartialSuccess ==
  (/\ response # NoResult
   /\ response.status = 200
   /\ PassingRows # {}
   /\ PassingRows # 1..Len(InputRows)) =>
     /\ Len(incomeEntryTable) = Cardinality(PassingRows)
     /\ response.errors # << >>

JaneDoeRow ==
  << Str(JaneDoe), Str(<<"$","5","0",",","0","0","0",".","0","0">>),
     Str(<<"$","6",",","0","0","0">>) >>

JaneDoeMapping ==
  << [k |-> "EmpName", v |-> "employeeName"], [k |-> "EmpWages", v |-> "wages"],
     [k |-> "FedWH", v |-> "federalTaxWithheld"] >>

\* C5: the wage-statement row of Jane Doe under the mapping EmpName ->
\* employeeName, EmpWages -> wages, FedWH -> federalTaxWithheld validates to
\* {employeeName: "Jane Doe", wages: 50000, federalTaxWithheld: 6000} and
\* converts to one W2_WAGES entry of amount 50000.
C5_WageStatementScenario ==
  (/\ plStage = "converted"
   /\ upload.rows = << JaneDoeRow >>
   /\ InputMapping = JaneDoeMapping) =>
     /\ Len(validationResult.data) = 1
     /\ Range(ObjKeys(validationResult.data[1])) =
          {"employeeName", "wages", "federalTaxWithheld"}
     /\ Prop(validationResult.data[1], "employeeName") = Str(JaneDoe)
     /\ Prop(validationResult.data[1], "wages") = Int0(50000)
     /\ Prop(validationResult.data[1], "federalTaxWithheld") = Int0(6000)
     /\ Len(convertedEntries) = 1
     /\ convertedEntries[1].incomeType = "W2_WAGES"
     /\ convertedEntries[1].amount = Int0(50000)

\* the value is a decimal number once '$' and ',' are removed
IsDecimalText(value) ==
  ParseWholeString(trim(StripCurrency(String(value)))) # NaN

\* C7: for a decimal target field the value is parsed after '$' and ','
\* are removed ("$12,345.67" gives 12345.67), and a value that is not a
\* number after that gets a ValidationError.  (Stated for mappings whose
\* targets are distinct, so that an error belongs to one source column.)
C7_DecimalCoercion ==
  (plStage \in {"validated", "converted"} /\ TargetsDistinct(InputMapping)) =>
    \A i \in 1..Len(InputRows), e \in 1..Len(InputMapping) :
      LET f == FindField(InputTemplate, InputMapping[e].v)
          value == Prop(InputRows[i], InputMapping[e].k)
      IN  (f # 0 /\ InputTemplate[f].type = "decimal" /\ ~IsMissing(value)) =>
            IF IsDecimalText(value)
              THEN /\ ErrorsOfField(validationResult.errors, i, InputMapping[e].v) = {}
                   /\ (Len(InputRows) = 1 /\ validationResult.success) =>
                        Prop(validationResult.data[1], InputMapping[e].v) =
                          ParseWholeString(trim(StripCurrency(String(value))))
              ELSE ErrorsOfField(validationResult.errors, i, InputMapping[e].v) # {}

-----------------------------------------------------------------------------
\* the data rows of a file, read off the input: the non-empty lines under
\* the header line, the sheet rows under the header row that have a cell
\* with content, the elements of the array (or the one object)
DataRowsOf(file) ==
  CASE file.fileType = "csv" ->
         SelectSeq(Tail(file.lines), LAMBDA l : l # << << >> >>)
    [] file.fileType = "xlsx" ->
         SelectSeq(Tail(file.sheet),
                   LAMBDA row : \E j \in 1..Len(row) :
                      row[j] \notin {Null, Undefined, Str(<< >>)})
    [] file.fileType = "json" -> file.elements

\* a parsed row carries the cells of the input row it came from
RowComesFrom(file, parsed, row) ==
  CASE file.fileType = "csv" ->
         /\ Len(parsed) = Len(row)
         /\ \A j \in 1..Len(row) : parsed[j].v = Str(row[j])
    [] file.fileType = "xlsx" ->
         \A j \in 1..Len(parsed) :
            \/ j <= Len(row) /\ parsed[j].v = row[j]
            \/ parsed[j].v = Null
    [] file.fileType = "json" -> parsed = row

\* C9: for every successfully parsed CSV, spreadsheet or JSON input with N
\* data rows, the parse result has totalRows = N, data of length N, and
\* preview equal to the first min(N, 5) rows in input order.
C9_ParseCounts ==
  (parseResult # NoResult /\ parseResult.success) =>
    LET rows == DataRowsOf(parseFile)
        N == Len(rows)
        shown == IF N < 5 THEN N ELSE 5
    IN  /\ parseResult.totalRows = N
        /\ Len(parseResult.data) = N
        /\ \A i \in 1..N : RowComesFrom(parseFile, parseResult.data[i], rows[i])
        /\ Len(parseResult.preview) = shown
        /\ \A i \in 1..shown : parseResult.preview[i] = parseResult.data[i]

\* a file of more than five data rows, with a blank one among its lines,
\* has been parsed
C9_Witness ==
  /\ parseResult # NoResult
  /\ parseResult.success
  /\ parseResult.totalRows > 5
  /\ Len(parseResult.preview) = 5
  /\ parseFile.fileType = "xlsx"

-----------------------------------------------------------------------------
(* The merge of the backend's fields with the fallback extraction *)

\* a request to the upload processing route, or to the document processing
\* route, ran the extraction to the end
UploadCompleted == uploadRow.status = "COMPLETED"
DocumentCompleted == documentRow.processingStatus = "COMPLETED"

\* the field map the backend supplied to each route
UploadBackendFields ==
  mapAzureDataToTaxData(
    SimpleAzure_processDocument(
      backendResult, determineDocumentType(ocrDocument.fileName)).extractedData)
DocumentBackendFields ==
  Azure_transformToTaxData(backendResult, ocrDocument.documentType).extractedData

\* the route merged the regex extraction of the OCR text into the backend's
\* fields: fewer than 3 of them, and OCR text at hand
UploadMerged ==
  /\ UploadCompleted /\ backendResult.configured
  /\ Len(UploadBackendFields) < 3 /\ ocrExtracted.ocrText # << >>
DocumentMerged ==
  /\ DocumentCompleted
  /\ Len(DocumentBackendFields) < 3 /\ ocrExtracted.ocrText # << >>

\* the upload route read a text file itself, the backend not being configured
UploadReadText ==
  /\ UploadCompleted /\ ~backendResult.configured
  /\ EndsWith(toLowerCase(ocrDocument.fileName), <<".","t","x","t">>)

Keeps(merged, supplied) ==
  \A i \in 1..Len(supplied) : Prop(merged, supplied[i].k) = supplied[i].v

\* C3: when the backend's structured fields are merged with the regex
\* fallback extraction, every field the backend supplied keeps the backend's
\* value in the merged field map; the fallback only adds fields the backend
\* did not supply.
C3_BackendValuesKept ==
  /\ UploadMerged => Keeps(ocrExtracted.extractedData, UploadBackendFields)
  /\ DocumentMerged => Keeps(ocrExtracted.extractedData, DocumentBackendFields)

\* the confidence indicator of the extraction result: the one on the
\* structured row of the upload route, the one in the document route's result
UploadConfidence == Prop(uploadRow.previewData[1], "confidence")
DocumentConfidence == ocrExtracted.confidence

NoBackendFields ==
  /\ backendResult.configured /\ backendResult.outcome = "succeeded"
  /\ backendResult.fields = << >>
  /\ backendResult.content = WageStatementText

WageStatementRead(extractedData, confidence) ==
  /\ Prop(extractedData, "wages") = Str(<<"4","5","2","0","0">>)
  /\ Prop(extractedData, "federalTaxWithheld") = Str(<<"5","1","0","0">>)
  /\ confidence = Str(<<"m","e","d","i","u","m">>)

\* C6: when the backend returns no structured fields and the OCR text
\* contains "Wages, tips, other compensation 45,200.00" and "Federal income
\* tax withheld 5,100.00", the OCR extraction result has wages = "45200" and
\* federalTaxWithheld = "5100" and its confidence indicator is "medium", not
\* "high".
C6_OcrScenario ==
  /\ (NoBackendFields /\ UploadCompleted) =>
       WageStatementRead(ocrExtracted.extractedData, UploadConfidence)
  /\ (NoBackendFields /\ DocumentCompleted) =>
       WageStatementRead(ocrExtracted.extractedData, DocumentConfidence)

\* a wages entry that the fallback extraction put into the field map
FallbackWages(supplied) ==
  /\ ~ObjHas(supplied, "wages")
  /\ ObjHas(ocrExtracted.extractedData, "wages")

WagesInRange ==
  AmountWithin(parseFloat(ObjGet(ocrExtracted.extractedData, "wages").s),
               1000, 1000000)

\* C8: in every fallback text-extraction path, a matched wages amount
\* outside [1,000, 1,000,000] (for example 999) is discarded: the resulting
\* field map has no wages entry, and the value is not clamped into range.
C8_OutOfRangeWagesDiscarded ==
  /\ (UploadMerged /\ FallbackWages(UploadBackendFields)) => WagesInRange
  /\ (UploadReadText /\ FallbackWages(<< >>)) => WagesInRange
  /\ (DocumentMerged /\ FallbackWages(DocumentBackendFields)) => WagesInRange

-----------------------------------------------------------------------------
(* Suggested mappings *)

\* a is a part of b
IsPart(a, b) == \E i \in 1..(Len(b) - Len(a) + 1) : SubSeq(b, i, i + Len(a) - 1) = a

\* the schema fields, by position, whose normalized name or label contains
\* or is contained in the column's normalized name
FieldsLike(column, formFields) ==
  { j \in 1..Len(formFields) :
      \/ IsPart(Normalize(Chars(formFields[j].name)), Normalize(Chars(column)))
      \/ IsPart(Normalize(Chars(column)), Normalize(Chars(formFields[j].name)))
      \/ IsPart(Normalize(formFields[j].label), Normalize(Chars(column)))
      \/ IsPart(Normalize(Chars(column)), Normalize(formFields[j].label)) }

FirstFieldLike(column, formFields) ==
  formFields[CHOOSE j \in FieldsLike(column, formFields) :
               \A h \in FieldsLike(column, formFields) : j <= h].name

\* C11: suggest (autoSuggestMappings) is a function of the source columns
\* and the schema: each source column is mapped to the first field, in
\* schema declaration order, whose normalized name or label contains or is
\* contained in the column's normalized name, and a column with no such
\* field is left unmapped.
C11_SuggestFirstMatch ==
  [][(AutoSuggestMappings /\ formTemplate # NoTemplate) =>
       /\ \A e \in Range(fieldMappings') : e.k \in Range(sourceFields)
       /\ \A c \in Range(sourceFields) :
            IF FieldsLike(c, FormFields(formTemplate)) = {}
              THEN ~ObjHas(fieldMappings', c)
              ELSE Prop(fieldMappings', c) = FirstFieldLike(c, FormFields(formTemplate))]_vars

\* the suggestion ran on the columns "wages" and "Total Wages": both got the
\* field wages, the first of the several fields either is like
C11_Witness ==
  /\ sourceFields = <<"wages", "Total Wages">>
  /\ fieldMappings = << [k |-> "wages", v |-> "wages"],
                        [k |-> "Total Wages", v |-> "wages"] >>
  /\ Cardinality(FieldsLike("wages", FormFields(formTemplate))) > 1

-----------------------------------------------------------------------------
(* Setting a mapping onto a field that is taken *)

\* after set(rtSource, target): another column maps to the target as well
TargetTaken ==
  \E e \in Range(fieldMappings) :
     e.k # rtSource /\ e.v = Prop(fieldMappings, rtSource)

\* C12: set(source, target) invoked while a different source column already
\* maps to target is rejected, and the mapping is left unchanged; the earlier
\* assignment is neither overwritten nor silently duplicated.
C12_DuplicateTargetRejected ==
  (rtStep = "set" /\ TargetTaken) => fieldMappings = rtPrior

-----------------------------------------------------------------------------
(* The ledger entries of validated rows *)

\* the field the amount of an entry is read from, "" where the form type has none
AmountField(formType) ==
  CASE formType = "W2" -> "wages"
    [] formType = "FORM_1099_NEC" -> "nonemployeeCompensation"
    [] formType = "FORM_1099_INT" -> "interestIncome"
    [] formType = "FORM_1099_DIV" -> "totalOrdinaryDividends"
    [] OTHER -> ""

\* the row has no amount, or one that is not a number
NoAmount(row, formType) ==
  /\ AmountField(formType) # ""
  /\ \/ ~ObjHas(row, AmountField(formType))
     \/ Number(Prop(row, AmountField(formType))) = NaN

ConvertedRows == validationResult.data

\* C13: convertToIncomeEntries returns exactly one ledger entry per validated
\* row, in the same order, each computed from its own row only; a row whose
\* amount field is missing or not a number still yields an entry, with amount 0.
C13_OneEntryPerRow ==
  plStage = "converted" =>
    /\ Len(convertedEntries) = Len(ConvertedRows)
    /\ \A i \in 1..Len(ConvertedRows) :
         /\ << convertedEntries[i] >> =
              convertToIncomeEntries(<< ConvertedRows[i] >>,
                                     dataMapping.formType, "tr1")
         /\ NoAmount(ConvertedRows[i], dataMapping.formType) =>
              convertedEntries[i].amount = Int0(0)

\* two different rows were converted, the first without the amount field of
\* the form type, the second with an amount that is not a number
C13_Witness ==
  /\ plStage = "converted"
  /\ dataMapping.formType = "FORM_1099_DIV"
  /\ Len(ConvertedRows) = 2 /\ Len(convertedEntries) = 2
  /\ ~ObjHas(ConvertedRows[1], "totalOrdinaryDividends")
  /\ ObjHas(ConvertedRows[2], "totalOrdinaryDividends")
  /\ NoAmount(ConvertedRows[2], "FORM_1099_DIV")
  /\ convertedEntries[1].payerName # convertedEntries[2].payerName

\* C14: every ledger entry produced by convertToIncomeEntries, for every
\* document type and every validated row (including rows whose amount field
\* holds a negative number), has amount >= 0.
C14_AmountNotNegative ==
  plStage = "converted" =>
    \A i \in 1..Len(convertedEntries) :
       /\ convertedEntries[i].amount.t = "number"
       /\ ~convertedEntries[i].amount.neg

\* the first of the two fields the row carries, as the name or ID of an entry
FirstPresent(row, own, alias) ==
  OrElse(Prop(row, own), OrElse(Prop(row, alias), Str(<< >>)))

\* C20: the counterparty name and tax ID of an entry come from the
\* document-type-specific fields when present (employerName/employerEIN for
\* W2, payerName/payerTIN for 1099 forms) and otherwise from the other alias
\* when that one is present.
C20_CounterpartyAlias ==
  plStage = "converted" =>
    \A i \in 1..Len(convertedEntries) :
       /\ dataMapping.formType = "W2" =>
            /\ convertedEntries[i].employerName =
                 FirstPresent(ConvertedRows[i], "employerName", "payerName")
            /\ convertedEntries[i].employerEIN =
                 FirstPresent(ConvertedRows[i], "employerEIN", "payerTIN")
       /\ dataMapping.formType \in {"FORM_1099_NEC", "FORM_1099_INT", "FORM_1099_DIV"} =>
            /\ convertedEntries[i].payerName =
                 FirstPresent(ConvertedRows[i], "payerName", "employerName")
            /\ convertedEntries[i].payerTIN =
                 FirstPresent(ConvertedRows[i], "payerTIN", "employerEIN")

-----------------------------------------------------------------------------
(* The size limit of uploads *)

\* C15: on every server upload path (structured-file upload and document
\* upload), a file larger than 10 MB is rejected with an error before it is
\* parsed, written to disk or recorded as an upload.
C15_LargeFileRejected ==
  (/\ upResponse # NoResult
   /\ upRequest.file # NoResult
   /\ upRequest.file.size > TenMB) =>
    /\ upResponse.status >= 400
    /\ ~upParsed
    /\ upDir = << >>
    /\ upTable = << >>

-----------------------------------------------------------------------------
(* Polling for the analysis result *)

PollEnded == pollPhase \in {"returned", "thrown"}

TimedOut ==
  /\ pollPhase = "thrown"
  /\ pollResult = [error |-> "Azure analysis timed out after 60 seconds"]

\* what holds of a call of pollForResults at every moment
PollBounded ==
  /\ pollFetches <= maxAttempts
  /\ pollWaited = pollInterval * (pollFetches - 1) + (IF TimedOut THEN pollInterval ELSE 0)
  /\ pollPhase = "returned" <=> pollStatus = "succeeded"
  /\ pollStatus = "succeeded" => pollResult = [analyzeResult |-> "analyzeResult"]
  /\ pollStatus \in {"failed", "notOk"} => pollPhase = "thrown" /\ ~TimedOut
  /\ TimedOut <=> (/\ PollEnded
                   /\ pollStatus \in {"running", "notStarted"}
                   /\ pollFetches = maxAttempts)

\* C16: pollForResults always terminates: it issues at most 30 polls at a
\* fixed 2-second interval, returns the result on status 'succeeded', fails on
\* status 'failed' or a non-OK response, and fails with a timeout error when
\* no terminal status was seen after the 30th poll; it never waits
\* indefinitely.
C16_PollTerminates == []PollBounded /\ <>PollEnded

\* thirty polls were answered "running" and the call timed out
C16_Witness ==
  /\ TimedOut
  /\ pollFetches = 30
  /\ pollStatus = "running"
  /\ pollWaited = 60000

-----------------------------------------------------------------------------
(* Validation row by row *)

\* the input rows no error names, in input order
RowsWithoutErrors ==
  SelectSeq([i \in 1..Len(InputRows) |-> i],
            LAMBDA i : ErrorsOfRow(validationResult.errors, i) = {})

\* C17: validateFormData never throws on a validation failure and processes
\* every input row: each input row either appears in the validated output
\* (when it has zero errors) or has at least one ValidationError carrying its
\* 1-based index, never both; the result has success = (errors is empty) and
\* processed = number of validated rows.
C17_EveryRowAccounted ==
  plStage \in {"validated", "converted"} =>
    LET rows == InputRows
        passing == PassingRows
        kept == RowsWithoutErrors
    IN
    /\ \A j \in 1..Len(validationResult.errors) :
         validationResult.errors[j].row \in 1..Len(rows)
    /\ \A i \in 1..Len(rows) :
         ErrorsOfRow(validationResult.errors, i) = {} <=> i \in passing
    /\ Len(validationResult.data) = Len(kept)
    /\ \A n \in 1..Len(kept) :
         << validationResult.data[n] >> =
           validateFormData(<< rows[kept[n]] >>, InputTemplate, InputMapping).data
    /\ validationResult.success = (validationResult.errors = << >>)
    /\ validationResult.processed = Len(validationResult.data)

\* three rows were validated: the first has an error, the second has none and
\* is the first validated row, the third has an error of the type switch
C17_Witness ==
  /\ plStage = "validated"
  /\ Len(InputRows) = 3
  /\ ErrorsOfRow(validationResult.errors, 1) # {}
  /\ RowsWithoutErrors = << 2 >>
  /\ \E j \in ErrorsOfRow(validationResult.errors, 3) :
        validationResult.errors[j].message = "must be a valid decimal number"
  /\ ~validationResult.success
  /\ validationResult.processed = 1

-----------------------------------------------------------------------------
(* Boolean fields *)

\* boolean true, or the text "true", "yes" or "1" in any case of letters
SaysTrue(value) ==
  \/ value = Bool(TRUE)
  \/ /\ value.t = "string"
     /\ toLowerCase(value.s) \in { <<"t","r","u","e">>, <<"y","e","s">>, <<"1">> }

\* the mapping entry e names a boolean field of the form, and row i has a
\* value in its column
BooleanCell(i, e) ==
  LET f == FindField(InputTemplate, InputMapping[e].v)
  IN  /\ f # 0
      /\ InputTemplate[f].type = "boolean"
      /\ ~IsMissing(Prop(InputRows[i], InputMapping[e].k))

\* C19: for a target field of type boolean with a non-empty value,
\* validateFormData coerces to true exactly when the value is boolean true or
\* is, case-insensitively, the string "true", "yes" or "1"; every other value
\* (for example "no", "false", "0", "maybe") coerces to false, and no error is
\* reported.
C19_BooleanCoercion ==
  plStage \in {"validated", "converted"} =>
    /\ \A i \in 1..Len(InputRows), e \in 1..Len(InputMapping) :
         BooleanCell(i, e) =>
           ErrorsOfField(validationResult.errors, i, InputMapping[e].v) = {}
    /\ \A n \in 1..Len(RowsWithoutErrors), e \in 1..Len(InputMapping) :
         BooleanCell(RowsWithoutErrors[n], e) =>
           Prop(validationResult.data[n], InputMapping[e].v) =
             Bool(SaysTrue(Prop(InputRows[RowsWithoutErrors[n]], InputMapping[e].k)))

-----------------------------------------------------------------------------
(* The upload processing route when the analysis or the file fails *)

\* the upload processing route answered with its event stream
UploadStreamed == sseEvents # << >>

EventsOf(status) == { i \in 1..Len(sseEvents) : "status" \in DOMAIN sseEvents[i]
                                                /\ sseEvents[i].status = status }

-----------------------------------------------------------------------------
(* When the fallback extraction runs *)

\* the number of fields with a value that is not empty
PopulatedCount(fields) ==
  Cardinality({ i \in 1..Len(fields) : Truthy(fields[i].v) })

\* C21: fallback pattern extraction over the OCR text runs exactly when the
\* backend's field map has fewer than 3 populated (non-empty) values and the
\* OCR text is non-empty; in particular it runs when the backend returned
\* field keys whose values are all empty.
C21_FallbackWhenFewPopulated ==
  /\ (UploadCompleted /\ backendResult.configured) =>
       ocrExtracted.extractedData =
         IF PopulatedCount(UploadBackendFields) < 3 /\ ocrExtracted.ocrText # << >>
           THEN ObjAssign(UploadBackendFields,
                          extractDataFromText(ocrExtracted.ocrText))
           ELSE UploadBackendFields
  /\ DocumentCompleted =>
       ocrExtracted.extractedData =
         IF PopulatedCount(DocumentBackendFields) < 3 /\ ocrExtracted.ocrText # << >>
           THEN ObjAssign(DocumentBackendFields,
                          performFallbackExtraction(ocrExtracted.ocrText,
                                                    ocrDocument.documentType))
           ELSE DocumentBackendFields

-----------------------------------------------------------------------------
(* The rows of structureTaxData *)

\* the one row the upload processing route stored
StructuredRow == uploadRow.previewData[1]

TextOnly == Str(<<"O","C","R","_","T","E","X","T","_","O","N","L","Y">>)

\* C22: structureTaxData always returns exactly one row: when the merged
\* field map is empty, the row is tagged as text-only (sourceType
\* OCR_TEXT_ONLY), carries the OCR text truncated to at most 1000 characters
\* and a manual-review note, and processing does not fail; when the field map
\* is non-empty, the row carries the extracted fields and is not tagged
\* text-only.
C22_OneStructuredRow ==
  /\ (UploadStreamed /\ ocrDocument.readable) => UploadCompleted
  /\ UploadCompleted =>
       /\ structureTaxData(ocrExtracted) = uploadRow.previewData
       /\ uploadRow.totalRows = 1
       /\ Len(uploadRow.previewData) = 1
       /\ IF ocrExtracted.extractedData = << >>
            THEN /\ Prop(StructuredRow, "sourceType") = TextOnly
                 /\ ObjHas(StructuredRow, "note")
                 /\ Len(Prop(StructuredRow, "ocrText").s) <= 1000
                 /\ \A i \in 1..Len(Prop(StructuredRow, "ocrText").s) :
                       Prop(StructuredRow, "ocrText").s[i] = ocrExtracted.ocrText[i]
                 /\ Len(ocrExtracted.ocrText) <= 1000 =>
                      Prop(StructuredRow, "ocrText").s = ocrExtracted.ocrText
                 /\ Len(ocrExtracted.ocrText) > 1000 =>
                      Len(Prop(StructuredRow, "ocrText").s) = 1000
            ELSE /\ Keeps(StructuredRow, ocrExtracted.extractedData)
                 /\ Prop(StructuredRow, "sourceType") # TextOnly

\* nothing was extracted from a text of 1001 characters: the row is text-only
\* and carries the first 1000
C22_Witness ==
  /\ UploadCompleted
  /\ ocrExtracted.extractedData = << >>
  /\ Len(ocrExtracted.ocrText) = 1001
  /\ Prop(StructuredRow, "sourceType") = TextOnly
  /\ Len(Prop(StructuredRow, "ocrText").s) = 1000

-----------------------------------------------------------------------------
(* The amount and the category of an entry *)

\* a number greater than 0
Positive(value) ==
  /\ value.t = "number"
  /\ ~value.neg
  /\ ~(value.int = 0 /\ value.frac = << >>)

\* C23: for every document type without a designated amount field (the default
\* branch of convertToIncomeEntries), the amount of the entry is the first
\* value, in the field order of the row, that is a number greater than 0, and
\* 0 when the row has no such value.
C23_DefaultAmountFirstPositive ==
  (plStage = "converted" /\ AmountField(dataMapping.formType) = "") =>
    \A i \in 1..Len(ConvertedRows) :
       LET row == ConvertedRows[i]
           amount == convertedEntries[i].amount
       IN  /\ (\A j \in 1..Len(row) : ~Positive(row[j].v)) => amount = Int0(0)
           /\ \A j \in 1..Len(row) :
                (/\ Positive(row[j].v)
                 /\ \A k \in 1..(j - 1) : ~Positive(row[k].v)) =>
                  amount = row[j].v

\* a form type of the default branch was converted: the first row has a zero
\* before its first positive number, the second row has negative numbers only
C23_Witness ==
  /\ plStage = "converted"
  /\ dataMapping.formType = "FORM_1099_MISC"
  /\ Len(ConvertedRows) = 2 /\ Len(convertedEntries) = 2
  /\ Prop(ConvertedRows[1], "federalIncomeTaxWithheld") = Int0(0)
  /\ convertedEntries[1].amount = Int0(900)
  /\ Prop(ConvertedRows[2], "wages") = Num(TRUE, 500, << >>)
  /\ convertedEntries[2].amount = Int0(0)

\* the form types of the table of getIncomeTypeFromForm
IncomeTypeTable ==
  {"W2", "W2_CORRECTED", "W3", "FORM_1099_NEC", "FORM_1099_MISC",
   "FORM_1099_INT", "FORM_1099_DIV", "FORM_1099_G", "FORM_1099_R",
   "FORM_1099_K", "FORM_1099_B", "FORM_1099_S", "FORM_1099_A", "FORM_1099_C",
   "FORM_1099_OID", "FORM_1099_PATR", "FORM_1099_Q", "FORM_1099_SA",
   "FORM_1098", "FORM_1098_E", "FORM_1098_T", "FORM_5498", "SCHEDULE_K1",
   "OTHER_TAX_DOCUMENT", "RECEIPT", "STATEMENT", "UNKNOWN"}

\* the category the claim fixes for a form type with a designated amount field
FixedCategory(formType) ==
  CASE formType = "W2" -> "W2_WAGES"
    [] formType = "FORM_1099_NEC" -> "NONEMPLOYEE_COMPENSATION"
    [] formType = "FORM_1099_INT" -> "INTEREST"
    [] formType = "FORM_1099_DIV" -> "DIVIDENDS"

\* C24: convertToIncomeEntries assigns each document type one fixed category
\* and one designated amount field regardless of row content: W2 -> W2_WAGES
\* from wages, FORM_1099_NEC -> NONEMPLOYEE_COMPENSATION from
\* nonemployeeCompensation, FORM_1099_INT -> INTEREST from interestIncome,
\* FORM_1099_DIV -> DIVIDENDS from totalOrdinaryDividends; every other document
\* type gets the category of getIncomeTypeFromForm, and OTHER_INCOME when the
\* type is not in that table.
C24_FixedCategoryAndAmountField ==
  plStage = "converted" =>
    \A i \in 1..Len(ConvertedRows) :
       LET formType == dataMapping.formType
           entry == convertedEntries[i]
       IN  /\ AmountField(formType) # "" =>
                /\ entry.incomeType = FixedCategory(formType)
                /\ entry.amount =
                     NumberOrZero(Prop(ConvertedRows[i], AmountField(formType)))
           /\ AmountField(formType) = "" =>
                entry.incomeType = getIncomeTypeFromForm(formType)
           /\ formType \notin IncomeTypeTable =>
                entry.incomeType = "OTHER_INCOME"

\* two rows of an interest form were converted: the first carries wages and no
\* interest, the second carries interest, and both entries are interest entries
C24_Witness ==
  /\ plStage = "converted"
  /\ dataMapping.formType = "FORM_1099_INT"
  /\ Len(ConvertedRows) = 2 /\ Len(convertedEntries) = 2
  /\ ObjHas(ConvertedRows[1], "wages")
  /\ ~ObjHas(ConvertedRows[1], "interestIncome")
  /\ Prop(ConvertedRows[2], "interestIncome") = Int0(30)
  /\ convertedEntries[1].incomeType = "INTEREST"
  /\ convertedEntries[1].amount = Int0(0)
  /\ convertedEntries[2].amount = Int0(30)

-----------------------------------------------------------------------------
(* The backend's fields in the extraction *)

\* C25: every populated structured field returned by the backend appears in
\* the field map of the extraction: under its canonical name when the backend
\* identifier is in the fixed lookup table, and under its lower-cased
\* identifier otherwise; no populated backend field is dropped between the
\* backend response and the extracted row.
C25_BackendFieldsKept ==
  (/\ UploadCompleted
   /\ backendResult.configured /\ backendResult.outcome = "succeeded"
   /\ backendResult.documents) =>
    \A i \in 1..Len(backendResult.fields) :
       Truthy(backendResult.fields[i].v) =>
         LET name == mapFieldName(backendResult.fields[i].k, "W2")
         IN  /\ ObjHas(ocrExtracted.extractedData, name)
             /\ ObjHas(StructuredRow, name)

-----------------------------------------------------------------------------
(* The rows of a sheet *)

\* the data rows of the sheet with a cell that is not blank
SheetRowsWithData ==
  SelectSeq(Tail(parseFile.sheet),
            LAMBDA row : \E j \in 1..Len(row) : ~IsMissing(row[j]))

\* C26: parseExcelFile drops exactly the data rows whose cells are all blank,
\* and every kept row is a record with every header column as a key, whose
\* value is the value of the cell when the cell is present (including 0 and
\* false) and null only when the cell is missing.
C26_SheetRowsKeepCells ==
  (/\ parseResult # NoResult
   /\ parseFile.fileType = "xlsx"
   /\ parseResult.success) =>
    /\ Len(parseResult.data) = Len(SheetRowsWithData)
    /\ \A r \in 1..Len(SheetRowsWithData) :
         LET cells == SheetRowsWithData[r]
             row == parseResult.data[r]
         IN  /\ ObjKeys(row) = parseResult.headers
             /\ \A index \in 1..Len(parseResult.headers) :
                  LET value == row[index].v
                  IN  IF index > Len(cells) \/ cells[index] \in {Null, Undefined}
                        THEN value = Null
                        ELSE value = cells[index]
                               \/ (cells[index] = Str(<< >>) /\ value = Null)

-----------------------------------------------------------------------------
(* Repeated requests to the process endpoint *)

\* the entries the ledger holds for a tax return
EntriesOf(table, taxReturnId) ==
  SelectSeq(table, LAMBDA entry : entry.taxReturnId = taxReturnId)

\* C27: processing the same mapping with the same tax return and unchanged
\* upload file any number of times leaves the same set of persisted ledger
\* (income) entries as processing it once; repeated processing does not add
\* duplicate entries.
C27_ReprocessingAddsNothing ==
  [][(/\ plPending' < plPending
      /\ EntriesOf(incomeEntryTable, plRequest'.taxReturnId) # << >>)
       => incomeEntryTable' = incomeEntryTable]_vars

\* the owner of a tax return
OwnerOf(taxReturnId) ==
  LET i == CHOOSE j \in DOMAIN taxReturnTable : taxReturnTable[j].id = taxReturnId
  IN  taxReturnTable[i].userId

\* C29: every income entry created by the mapping process endpoint is attached
\* to a tax return owned by the authenticated user who made the request, and
\* the rows it is built from come from an upload owned by that user; a request
\* naming the taxReturnId of another user, or a mapping whose uploadId belongs
\* to another user, creates no entries.
C29_EntriesOfRequester ==
  [][(plPending' < plPending /\ incomeEntryTable' # incomeEntryTable) =>
       /\ \A i \in (Len(incomeEntryTable) + 1)..Len(incomeEntryTable') :
            OwnerOf(incomeEntryTable'[i].taxReturnId) = plRequest'.user
       /\ upload.userId = plRequest'.user]_vars

-----------------------------------------------------------------------------
(* The event stream of one request *)

\* the upload was found and the route returned the stream
StreamReturned ==
  /\ ocrResponse # NoResult
  /\ "contentType" \in DOMAIN ocrResponse

\* where the callback enqueued an event of a status, updated the row to a
\* status, closed the stream
Enqueued(status) ==
  { i \in DOMAIN sseLog : /\ sseLog[i].op = "enqueue"
                          /\ "status" \in DOMAIN sseLog[i].event
                          /\ sseLog[i].event.status = status }
Updated(status) ==
  { i \in DOMAIN sseLog : sseLog[i].op = "update" /\ sseLog[i].status = status }
Closed == { i \in DOMAIN sseLog : sseLog[i].op = "close" }

\* C28: for one invocation of the upload processing endpoint on an existing
\* upload, the event stream is always closed and carries exactly one terminal
\* outcome: either a 'completed' event followed by [DONE] after the upload
\* status was set to COMPLETED, or an 'error' event after the status update to
\* FAILED was attempted; a 'completed' event and an 'error' event never both
\* occur, and no 'processing' event follows a terminal event.
C28_OneTerminalOutcome ==
  StreamReturned =>
    LET terminal == Enqueued("completed") \cup Enqueued("error")
    IN  /\ Closed = {Len(sseLog)}
        /\ Cardinality(terminal) = 1
        /\ \A i \in Enqueued("completed") :
             /\ \E j \in Updated("COMPLETED") : j < i /\ sseLog[j].saved
             /\ uploadRow.status = "COMPLETED"
             /\ sseLog[i + 1] = [op |-> "enqueue", event |-> [data |-> "[DONE]"]]
        /\ \A i \in Enqueued("error") : \E j \in Updated("FAILED") : j < i
        /\ \A i \in terminal : \A j \in Enqueued("processing") : j < i
        /\ sseEvents = [i \in 1..Len(sseEvents) |->
                          SelectSeq(sseLog, LAMBDA step : step.op = "enqueue")[i].event]
        /\ Len(sseEvents) = Cardinality({ i \in DOMAIN sseLog : sseLog[i].op = "enqueue" })

\* the analysis got through, the update to COMPLETED threw and so did the
\* update to FAILED: the stream ends with the error event and is closed, and
\* the row is as it was
C28_Witness ==
  /\ StreamReturned
  /\ Cardinality(Enqueued("processing")) = 3
  /\ Enqueued("completed") = {}
  /\ Enqueued("error") = {5}
  /\ \E j \in Updated("FAILED") : ~sseLog[j].saved
  /\ uploadRow.status = "PENDING"
  /\ Closed = {6}

-----------------------------------------------------------------------------
(* Targets outside the mapping, and outside the schema *)

\* the targets of the mapping, and the names of the fields of the schema
MappedTargets == { InputMapping[e].v : e \in 1..Len(InputMapping) }
SchemaNames == { InputTemplate[f].name : f \in 1..Len(InputTemplate) }

\* the required fields of the schema that no source column maps to
UnmappedRequired ==
  { f \in 1..Len(InputTemplate) :
      InputTemplate[f].required /\ InputTemplate[f].name \notin MappedTargets }

\* C30: validateFormData checks required fields only for targets that occur in
\* the field mapping: a required schema field that no source column maps to
\* produces no ValidationError and does not exclude the row, and a mapping
\* entry whose target is not a field of the schema is ignored without error and
\* adds no key to the validated row.
C30_OnlyMappedSchemaTargets ==
  plStage = "validated" =>
    LET checked == MappedTargets \cap SchemaNames
    IN
    /\ \A j \in 1..Len(validationResult.errors) :
         validationResult.errors[j].field \in checked
    /\ \A n \in 1..Len(validationResult.data) :
         \A k \in 1..Len(validationResult.data[n]) :
            validationResult.data[n][k].k \in checked
    \* the result is the one of the schema without the fields that are no
    \* target and of the mapping without the entries outside the schema
    /\ validationResult =
         validateFormData(
           InputRows,
           SelectSeq(InputTemplate, LAMBDA field : field.name \in MappedTargets),
           SelectSeq(InputMapping, LAMBDA entry : entry.v \in SchemaNames))

\* a mapping with a target outside the schema, and a schema with required
\* fields that are no target: the first row was validated without an error
\* and has the two keys of the targets inside the schema
C30_Witness ==
  /\ plStage = "validated"
  /\ UnmappedRequired # {}
  /\ \E e \in 1..Len(InputMapping) : InputMapping[e].v \notin SchemaNames
  /\ Len(InputMapping) = 3
  /\ ErrorsOfRow(validationResult.errors, 1) = {}
  /\ Len(validationResult.data) >= 1
  /\ ObjKeys(validationResult.data[1]) = << "employeeName", "wages" >>

====
